---- MODULE Spec2Model ----
(***************************************************************************)
(* Models of three classes of the repository.                              *)
(*                                                                         *)
(* ReactiveContext (its source is the class listed in                      *)
(* src/getCssValue/README.md, lines 486-833): the listener table, the      *)
(* proxy cache, the field storage, the get/set traps and the dispatch      *)
(* loop.  One JavaScript operation of the host (a subscription call, a     *)
(* property read, a property write, an array method call) is one action;   *)
(* the action computes everything the operation does on its call stack,    *)
(* listeners included, and leaves the trace of it in the variable log.     *)
(*                                                                         *)
(* DragToScrollOnPC (src/DragToScrollOnPc/index.js) and TriggerSpring      *)
(* (src/TriggerSpring/index.js): one action for each event, timer or       *)
(* animation frame of the browser that runs a handler, and for each call   *)
(* of the page.                                                            *)
(***************************************************************************)
EXTENDS Integers, Sequences, FiniteSets, TLC

VARIABLES
    heap,        \* the objects: raw objects, raw arrays and Proxy objects, by identity
    cache,       \* #proxy_cache: raw identity -> identity of its Proxy (0: no entry)
    fields,      \* #fields: field name -> stored value
    own,         \* names of the host's own properties (what hasOwnProperty sees)
    listeners,   \* #listeners: event name -> array of registered functions
    nextWrapper, \* identity given to the next wrapper function created by once()
    unsubs,      \* the cleanup closures returned by on()/once() that the caller holds
    refs,        \* the reactive nodes the caller keeps in variables of its own
    log,         \* what the last operation did, in program order
    last,        \* the last operation: its name, arguments and outcome
    drag,        \* a scrollable element and the DragToScrollOnPC instance on it
    spring,      \* a scroll container and the TriggerSpring instance on it
    query        \* a call of getCssValue: its arguments and its return value

vars == <<heap, cache, fields, own, listeners, nextWrapper, unsubs, refs, log, last,
          drag, spring, query>>

(***************************************************************************)
(* Bounds of the model.                                                    *)
(***************************************************************************)
MaxHeap == 6          \* objects ever allocated
MaxListeners == 3     \* registrations held by the table at a time
MaxArrayLen == 3      \* elements of an array
MaxWrappers == 1      \* once() wrappers ever created
MaxRefs == 1          \* reactive nodes the caller keeps at a time
MaxDispatch == 8      \* calls of one dispatch loop that the model follows

(***************************************************************************)
(* Values.  Every JavaScript value is a record [t, v]: a number, undefined,*)
(* null, or a reference to a heap object (raw or Proxy).  Absent marks a   *)
(* property slot that does not exist on the raw object.                    *)
(***************************************************************************)
Num(n) == [t |-> "num", v |-> n]
Undef == [t |-> "undef", v |-> 0]
Null == [t |-> "null", v |-> 0]
Ref(i) == [t |-> "ref", v |-> i]
Fn(i) == [t |-> "fn", v |-> i]
Absent == [t |-> "absent", v |-> 0]

\* typeof x === 'object' && x !== null
IsObjectValue(x) == x.t = "ref"

\* Property keys of plain objects used by the model, and array index keys.
PropKeys == {"b", "c", "d", "_p", "@@sym"}
IdxKeys == <<"0", "1", "2", "3", "4">>
IsIndex(k) == \E i \in 1..Len(IdxKeys) : IdxKeys[i] = k
IndexOf(k) == (CHOOSE i \in 1..Len(IdxKeys) : IdxKeys[i] = k) - 1
\* (variant: no key counts as starting with an underscore)
StartsWithUnderscoreNever(k) == FALSE
\* prop.startsWith('_'), on the keys of the model
StartsWithUnderscore(k) == k \in {"_p"}
\* typeof prop === 'string' (symbol keys are written "@@name")
SymbolKeys == {"@@sym"}
IsStringKey(k) == k \notin SymbolKeys

ARRAY_MUTATORS == {"push", "pop", "shift", "unshift", "splice", "sort", "reverse", "fill", "copyWithin"}

NoProps == [k \in PropKeys |-> Absent]
RawObject(props) == [kind |-> "object", props |-> props, elems |-> <<>>, target |-> 0, ns |-> ""]
RawArray(elems) == [kind |-> "array", props |-> NoProps, elems |-> elems, target |-> 0, ns |-> ""]
ProxyObject(target, ns) == [kind |-> "proxy", props |-> NoProps, elems |-> <<>>, target |-> target, ns |-> ns]

\* Array.isArray, which sees through a Proxy to its target
RECURSIVE IsArray(_, _)
IsArray(h, id) ==
    IF h[id].kind = "proxy" THEN IsArray(h, h[id].target) ELSE h[id].kind = "array"

\* obj[prop] on a raw object or array
RawGet(h, id, prop) ==
    LET o == h[id] IN
    IF o.kind = "array" /\ IsIndex(prop)
    THEN IF IndexOf(prop) < Len(o.elems) /\ o.elems[IndexOf(prop) + 1] # Absent
         THEN o.elems[IndexOf(prop) + 1] ELSE Undef
    ELSE IF o.kind = "array" /\ prop = "length" THEN Num(Len(o.elems))
    ELSE IF prop \in PropKeys /\ o.props[prop] # Absent THEN o.props[prop]
    ELSE Undef

\* obj[prop] = value on a raw object or array (an index past the end leaves holes)
RawSet(h, id, prop, value) ==
    LET o == h[id] IN
    IF o.kind = "array" /\ IsIndex(prop)
    THEN LET i == IndexOf(prop) + 1
             n == IF i > Len(o.elems) THEN i ELSE Len(o.elems)
         IN [h EXCEPT ![id].elems =
                [j \in 1..n |-> IF j = i THEN value
                                ELSE IF j <= Len(o.elems) THEN o.elems[j] ELSE Absent]]
    ELSE [h EXCEPT ![id].props[prop] = value]


(***************************************************************************)
(* Event payloads (the Date.now() timestamp is not modelled) and the       *)
(* entries of the listener arrays.  A registered function is either a      *)
(* callback of the caller (w = 0) or the wrapper created by the w-th       *)
(* once() call around the callback cb.                                     *)
(***************************************************************************)
NoPayload == [shape |-> "", prop |-> "", value |-> Undef, old_value |-> Undef,
              new_value |-> Undef, method |-> "", args |-> <<>>, length |-> 0]
ReadPayload(prop, value) == [NoPayload EXCEPT !.shape = "read", !.prop = prop, !.value = value]
ChangePayload(prop, old_value, new_value) ==
    [NoPayload EXCEPT !.shape = "change", !.prop = prop, !.old_value = old_value,
                      !.new_value = new_value]
MutationPayload(method, args, length) ==
    [NoPayload EXCEPT !.shape = "mutation", !.method = method, !.args = args, !.length = length]

Plain(cb) == [cb |-> cb, w |-> 0]
\* (variant: once registers the callback itself instead of a wrapper)
WrapperIsCallback(cb, w) == [cb |-> cb, w |-> 0]
Wrapper(cb, w) == [cb |-> cb, w |-> w]
NoEntry == [cb |-> "", w |-> 0]

\* The host instance passed to every listener as its second argument.
Host == "host"

(***************************************************************************)
(* The trace of an operation.  k is the kind of step: "emit" (a call of    *)
(* #emit, snap is the array found at that moment), "call" (a registered    *)
(* function is invoked by the dispatch that log[n] started), "error"       *)
(* (console.error after a caught exception), "warn" (console.warn),        *)
(* "assign" (an assignment to the raw target obj), "store" (an assignment  *)
(* to #fields), "push"/"splice" (a change of a listener array), "apply"    *)
(* (an Array.prototype method applied to the raw array obj), "cut" (the    *)
(* loop of the dispatch that log[n] started was followed for MaxDispatch   *)
(* calls and has not reached the end of its array).  d is the depth of the *)
(* operation: 0 for the caller's, 1 for a listener's.                      *)
(***************************************************************************)
NoStep == [k |-> "", d |-> 0, ev |-> "", n |-> 0, entry |-> NoEntry, pl |-> NoPayload,
           snap |-> <<>>, obj |-> 0, ctx |-> ""]

\* The state an operation works on is a record of the private fields, the
\* trace so far and threw: an exception is propagating.
Logged(st, step) == [st EXCEPT !.log = Append(@, step)]

\* const r = v; F(r): the value v is computed once and then named
Bind(v, F(_)) == CHOOSE x \in {F(r) : r \in {v}} : TRUE

RECURSIVE Iterate(_, _, _, _, _, _)

\* the first index of entry in arr, 0 when there is none (indexOf, one-based)
FirstIndex(arr, entry) ==
    IF \E i \in 1..Len(arr) : arr[i] = entry
    THEN CHOOSE i \in 1..Len(arr) : arr[i] = entry /\ \A j \in 1..(i - 1) : arr[j] # entry
    ELSE 0

RemoveAt(arr, i) == [j \in 1..(Len(arr) - 1) |-> IF j < i THEN arr[j] ELSE arr[j + 1]]

\* (variant: on puts the callback at the front of the array)
OnStFront(st, event, entry, n, d) ==
    LET L == st.L
        newL == [e \in DOMAIN L \cup {event} |->
                    IF e = event
                    THEN (IF event \in DOMAIN L THEN <<entry>> \o L[event] ELSE <<entry>>)
                    ELSE L[e]]
    IN [st EXCEPT !.L = newL,
                  !.log = Append(@, [NoStep EXCEPT !.k = "push", !.d = d, !.ev = event,
                                                   !.n = n, !.entry = entry])]

\* on(event, callback): creates the array when there is none, then pushes
OnSt(st, event, entry, n, d) ==
    LET L == st.L
        newL == [e \in DOMAIN L \cup {event} |->
                    IF e = event
                    THEN (IF event \in DOMAIN L THEN Append(L[event], entry) ELSE <<entry>>)
                    ELSE L[e]]
    IN [st EXCEPT !.L = newL,
                  !.log = Append(@, [NoStep EXCEPT !.k = "push", !.d = d, !.ev = event,
                                                   !.n = n, !.entry = entry])]

\* (variant: off removes every occurrence of the callback)
OffStEvery(st, event, entry, n, d) ==
    IF event \notin DOMAIN st.L THEN st
    ELSE IF FirstIndex(st.L[event], entry) > 0
    THEN [st EXCEPT !.L[event] = SelectSeq(@, LAMBDA x : x # entry),
                    !.log = Append(@, [NoStep EXCEPT !.k = "splice", !.d = d, !.ev = event,
                                                     !.n = n, !.entry = entry])]
    ELSE st

\* off(event, callback): splices the first occurrence out of the array, in place
OffSt(st, event, entry, n, d) ==
    IF event \notin DOMAIN st.L THEN st
    ELSE LET index == FirstIndex(st.L[event], entry) IN
         IF index > 0
         THEN [st EXCEPT !.L[event] = RemoveAt(@, index),
                         !.log = Append(@, [NoStep EXCEPT !.k = "splice", !.d = d, !.ev = event,
                                                          !.n = n, !.entry = entry])]
         ELSE st

(***************************************************************************)
(* The callbacks a caller registers.  Each name is one function of the     *)
(* caller's code; what it does when invoked for event ev:                  *)
(*   nop      returns                                                      *)
(*   thrower  throws                                                       *)
(*   offSelf  ctx.off(ev, offSelf), then returns                           *)
(*   adder    ctx.on(ev, late), then returns                               *)
(*   late     returns                                                      *)
(*   again    ctx.on(ev, again), then returns                              *)
(*   writer   if (data.new_value === 1) ctx.a.c = 2, then returns          *)
(*   mutator  data.new_value = 9, then returns                             *)
(***************************************************************************)
Callbacks == {"nop", "thrower", "offSelf", "adder"}

RECURSIVE ObjGet(_, _, _, _)
RECURSIVE ObjSet(_, _, _, _, _)

Behave(st, cb, ev, data, n, d) ==
    CASE cb = "thrower" -> [st EXCEPT !.threw = TRUE]
      [] cb = "offSelf" -> OffSt(st, ev, Plain("offSelf"), n, d + 1)
      [] cb = "adder" -> OnSt(st, ev, Plain("late"), n, d + 1)
      [] cb = "again" -> OnSt(st, ev, Plain("again"), n, d + 1)
      [] cb = "writer" ->
            IF data.new_value = Num(1) /\ "a" \in DOMAIN st.fields
               /\ IsObjectValue(st.fields["a"])
            THEN ObjSet(st, st.fields["a"].v, "c", Num(2), d + 1)
            ELSE st
      [] cb = "mutator" -> [st EXCEPT !.pl.new_value = Num(9)]
      [] OTHER -> st

\* Calling a registered function: the callback itself, or the wrapper of
\* once(): callback(data, ctx); this.off(event, wrapper)
Invoke(st, entry, ev, data, n, d) ==
    IF entry.w = 0 THEN Behave(st, entry.cb, ev, data, n, d)
    ELSE Bind(Behave(st, entry.cb, ev, data, n, d), LAMBDA s1 :
            IF s1.threw THEN s1 ELSE OffSt(s1, ev, entry, n, d + 1))

\* The loop of #emit: for (const callback of this.#listeners[event]) with
\* try/catch around each call.  The array iterator reads the live array:
\* position i is compared with the current length before every step.  Every
\* call gets the same payload object: st.pl is that object while a listener
\* runs, and what the listener left in it is what the next listener gets.
Iterate(st, ev, data, i, n, d) ==
    IF i > Len(st.L[ev]) THEN st
    ELSE IF i > MaxDispatch
    THEN Logged(st, [NoStep EXCEPT !.k = "cut", !.d = d, !.ev = ev, !.n = n])
    ELSE LET entry == st.L[ev][i] IN
         Bind([st EXCEPT !.pl = data,
                         !.log = Append(@, [NoStep EXCEPT !.k = "call", !.d = d, !.ev = ev,
                                                          !.n = n, !.entry = entry,
                                                          !.pl = data, !.ctx = Host])],
              LAMBDA s1 :
         Bind(Invoke(s1, entry, ev, data, n, d), LAMBDA s2 :
         Bind(IF s2.threw
              THEN [s2 EXCEPT !.threw = FALSE,
                              !.log = Append(@, [NoStep EXCEPT !.k = "error", !.d = d,
                                                               !.ev = ev, !.n = n,
                                                               !.entry = entry])]
              ELSE s2,
              LAMBDA s3 : Iterate(s3, ev, s3.pl, i + 1, n, d))))

\* (variant: #emit records the event and leaves the calls of the listeners for later)
EmitDeferred(st, event, data, d) ==
    IF event \notin DOMAIN st.L
    THEN Logged(st, [NoStep EXCEPT !.k = "emit", !.d = d, !.ev = event, !.pl = data])
    ELSE Logged(st, [NoStep EXCEPT !.k = "emit", !.d = d, !.ev = event, !.pl = data,
                                   !.snap = st.L[event]])

\* #emit(event, data)
Emit(st, event, data, d) ==
    IF event \notin DOMAIN st.L
    THEN Logged(st, [NoStep EXCEPT !.k = "emit", !.d = d, !.ev = event, !.pl = data])
    ELSE Bind(Logged(st, [NoStep EXCEPT !.k = "emit", !.d = d, !.ev = event, !.pl = data,
                                        !.snap = st.L[event]]),
              LAMBDA s1 :
         Bind(Iterate(s1, event, data, 1, Len(s1.log), d), LAMBDA s2 :
              [s2 EXCEPT !.pl = st.pl]))

\* obj[prop] = value on the raw object obj, as a step of the trace
Assign(st, obj, prop, value, d) ==
    [st EXCEPT !.heap = RawSet(@, obj, prop, value),
               !.log = Append(@, [NoStep EXCEPT !.k = "assign", !.d = d, !.ev = prop,
                                                !.obj = obj,
                                                !.pl = ChangePayload(prop, Undef, value)])]

(***************************************************************************)
(* #createReactive and the traps of the Proxy it creates.  A result is a   *)
(* record [st, val].  The target of a Proxy is a raw object, unless the    *)
(* caller assigned a reactive node: #createReactive then makes a Proxy     *)
(* whose target is that node, and obj[prop] inside its traps runs the      *)
(* traps of the node.                                                      *)
(***************************************************************************)
\* (variant: #createReactive does not look the target up in #proxy_cache)
createReactiveNoLookup(st, target, namespace) ==
    IF ~IsObjectValue(target) THEN [st |-> st, val |-> target]
    ELSE [st |-> [st EXCEPT !.heap = Append(@, ProxyObject(target.v, namespace)),
                            !.cache = [Append(@, 0) EXCEPT ![target.v] = Len(st.heap) + 1]],
          val |-> Ref(Len(st.heap) + 1)]

createReactive(st, target, namespace) ==
    IF ~IsObjectValue(target) THEN [st |-> st, val |-> target]
    ELSE IF st.cache[target.v] # 0 THEN [st |-> st, val |-> Ref(st.cache[target.v])]
    ELSE [st |-> [st EXCEPT !.heap = Append(@, ProxyObject(target.v, namespace)),
                            !.cache = [Append(@, 0) EXCEPT ![target.v] = Len(st.heap) + 1]],
          val |-> Ref(Len(st.heap) + 1)]

\* (variant: the get trap emits the specific read event only)
GetTrapSpecificOnly(st, pid, prop, d) ==
    LET obj == st.heap[pid].target
        namespace == st.heap[pid].ns
        value == RawGet(st.heap, obj, prop)
    IN IF IsArray(st.heap, obj) /\ prop \in ARRAY_MUTATORS
       THEN [st |-> st, val |-> Fn(pid)]
       ELSE IF IsObjectValue(value)
       THEN createReactive(st, value, namespace \o "." \o prop)
       ELSE IF IsStringKey(prop) /\ ~StartsWithUnderscore(prop)
       THEN [st |-> Emit(st, namespace \o ":" \o prop \o ":read", ReadPayload(prop, value), d),
             val |-> value]
       ELSE [st |-> st, val |-> value]

\* (variant: the get trap wraps a nested object under its parent's namespace)
GetTrapFlat(st, pid, prop, d) ==
    LET obj == st.heap[pid].target
        namespace == st.heap[pid].ns
        value == RawGet(st.heap, obj, prop)
    IN IF IsArray(st.heap, obj) /\ prop \in ARRAY_MUTATORS
       THEN [st |-> st, val |-> Fn(pid)]
       ELSE IF IsObjectValue(value)
       THEN createReactive(st, value, namespace)
       ELSE IF IsStringKey(prop) /\ ~StartsWithUnderscore(prop)
       THEN Bind(Emit(st, namespace \o ":" \o prop \o ":read", ReadPayload(prop, value), d),
                 LAMBDA s1 :
                    [st |-> Emit(s1, namespace \o ":read", ReadPayload(prop, value), d),
                     val |-> value])
       ELSE [st |-> st, val |-> value]

\* (variant: the get trap emits the read events before it wraps an object value)
GetTrapReadsObjects(st, pid, prop, d) ==
    LET obj == st.heap[pid].target
        namespace == st.heap[pid].ns
        value == RawGet(st.heap, obj, prop)
    IN IF IsArray(st.heap, obj) /\ prop \in ARRAY_MUTATORS
       THEN [st |-> st, val |-> Fn(pid)]
       ELSE IF IsStringKey(prop) /\ ~StartsWithUnderscore(prop)
       THEN Bind(Emit(st, namespace \o ":" \o prop \o ":read", ReadPayload(prop, value), d),
                 LAMBDA s1 :
            Bind(Emit(s1, namespace \o ":read", ReadPayload(prop, value), d), LAMBDA s2 :
                 createReactive(s2, value, namespace \o "." \o prop)))
       ELSE [st |-> st, val |-> value]

\* the get trap of the Proxy pid (a template literal with a symbol in it throws)
GetTrap(st, pid, prop, d) ==
    LET obj == st.heap[pid].target
        namespace == st.heap[pid].ns
    IN Bind(ObjGet(st, obj, prop, d), LAMBDA got :
       Bind(got.st, LAMBDA s0 :
       Bind(got.val, LAMBDA value :
       IF s0.threw THEN [st |-> s0, val |-> Undef]
       ELSE IF IsArray(s0.heap, obj) /\ prop \in ARRAY_MUTATORS
       THEN [st |-> s0, val |-> Fn(pid)]
       ELSE IF IsObjectValue(value) /\ ~IsStringKey(prop)
       THEN [st |-> [s0 EXCEPT !.threw = TRUE], val |-> Undef]
       ELSE IF IsObjectValue(value)
       THEN createReactive(s0, value, namespace \o "." \o prop)
       ELSE IF IsStringKey(prop) /\ ~StartsWithUnderscore(prop)
       THEN Bind(Emit(s0, namespace \o ":" \o prop \o ":read", ReadPayload(prop, value), d),
                 LAMBDA s1 :
                    [st |-> Emit(s1, namespace \o ":read", ReadPayload(prop, value), d),
                     val |-> value])
       ELSE [st |-> s0, val |-> value])))

\* (variant: the set trap reads old_value after the assignment)
SetTrapLateOld(st, pid, prop, new_value, d) ==
    LET obj == st.heap[pid].target
        namespace == st.heap[pid].ns
    IN Bind(Assign(st, obj, prop, new_value, d), LAMBDA s1 :
       Bind(Emit(s1, namespace \o ":" \o prop \o ":change",
                 ChangePayload(prop, RawGet(s1.heap, obj, prop), new_value), d), LAMBDA s2 :
            Emit(s2, namespace \o ":change",
                 ChangePayload(prop, RawGet(s1.heap, obj, prop), new_value), d)))

\* (variant: the set trap tests typeof old_value === 'object' only, which null passes)
SetTrapWarnsOnNull(st, pid, prop, new_value, d) ==
    LET obj == st.heap[pid].target
        namespace == st.heap[pid].ns
        old_value == RawGet(st.heap, obj, prop)
        s0 == IF old_value.t \in {"ref", "null"}
              THEN Logged(st, [NoStep EXCEPT !.k = "warn", !.d = d, !.ev = prop, !.obj = obj])
              ELSE st
    IN Bind(Assign(s0, obj, prop, new_value, d), LAMBDA s1 :
       Bind(Emit(s1, namespace \o ":" \o prop \o ":change",
                 ChangePayload(prop, old_value, new_value), d), LAMBDA s2 :
            Emit(s2, namespace \o ":change", ChangePayload(prop, old_value, new_value), d)))

\* the set trap of the Proxy pid (a template literal with a symbol in it throws)
SetTrap(st, pid, prop, new_value, d) ==
    LET obj == st.heap[pid].target
        namespace == st.heap[pid].ns
    IN Bind(ObjGet(st, obj, prop, d), LAMBDA got :
       Bind(got.val, LAMBDA old_value :
       IF got.st.threw THEN got.st ELSE
       Bind(IF IsObjectValue(old_value)
            THEN Logged(got.st, [NoStep EXCEPT !.k = "warn", !.d = d, !.ev = prop,
                                               !.obj = obj])
            ELSE got.st, LAMBDA s0 :
       Bind(ObjSet(s0, obj, prop, new_value, d), LAMBDA s1 :
       IF s1.threw THEN s1
       ELSE IF ~IsStringKey(prop) THEN [s1 EXCEPT !.threw = TRUE] ELSE
       Bind(Emit(s1, namespace \o ":" \o prop \o ":change",
                 ChangePayload(prop, old_value, new_value), d), LAMBDA s2 :
            Emit(s2, namespace \o ":change", ChangePayload(prop, old_value, new_value), d))))))

\* receiver[prop] where receiver is a reactive node (its get trap runs) or a raw object
ObjGet(st, id, prop, d) ==
    IF st.heap[id].kind = "proxy" THEN GetTrap(st, id, prop, d)
    ELSE [st |-> st, val |-> RawGet(st.heap, id, prop)]

\* receiver[prop] = value where receiver is a reactive node (its set trap runs) or a raw object
ObjSet(st, id, prop, value, d) ==
    IF st.heap[id].kind = "proxy" THEN SetTrap(st, id, prop, value, d)
    ELSE Assign(st, id, prop, value, d)

(***************************************************************************)
(* The nine mutating methods of Array.prototype, on the element sequence   *)
(* of a raw array, for non-negative integer positions.  The result is      *)
(* [elems, ret, removed]: the elements afterwards, the primitive return    *)
(* value (ret.t = "self": the method returns the array it was applied to;  *)
(* ret.t = "new": it returns a new raw array holding removed, which the    *)
(* model does not place in the heap).                                      *)
(***************************************************************************)
Min(a, b) == IF a < b THEN a ELSE b
ArgOr(args, i, default) == IF Len(args) >= i THEN args[i].v ELSE default
Self == [t |-> "self", v |-> 0]
NewArray == [t |-> "new", v |-> 0]

\* default sort order of the model's elements (numbers 0..9 compare as their strings do)
RECURSIVE InsertSorted(_, _)
InsertSorted(sorted, x) ==
    IF sorted = <<>> THEN <<x>>
    ELSE IF x.v < Head(sorted).v THEN <<x>> \o sorted
    ELSE <<Head(sorted)>> \o InsertSorted(Tail(sorted), x)
RECURSIVE DefaultSort(_)
DefaultSort(s) == IF s = <<>> THEN <<>> ELSE InsertSorted(DefaultSort(Tail(s)), Head(s))

ArrayApply(elems, method, args) ==
    LET len == Len(elems) IN
    CASE method = "push" ->
            [elems |-> elems \o args, ret |-> Num(len + Len(args)), removed |-> <<>>]
      [] method = "pop" ->
            IF len = 0 THEN [elems |-> elems, ret |-> Undef, removed |-> <<>>]
            ELSE [elems |-> SubSeq(elems, 1, len - 1), ret |-> elems[len], removed |-> <<>>]
      [] method = "shift" ->
            IF len = 0 THEN [elems |-> elems, ret |-> Undef, removed |-> <<>>]
            ELSE [elems |-> Tail(elems), ret |-> Head(elems), removed |-> <<>>]
      [] method = "unshift" ->
            [elems |-> args \o elems, ret |-> Num(len + Len(args)), removed |-> <<>>]
      [] method = "splice" ->
            LET start == Min(ArgOr(args, 1, 0), len)
                del == IF Len(args) = 0 THEN 0
                       ELSE IF Len(args) = 1 THEN len - start
                       ELSE Min(args[2].v, len - start)
                items == IF Len(args) > 2 THEN SubSeq(args, 3, Len(args)) ELSE <<>>
            IN [elems |-> SubSeq(elems, 1, start) \o items \o SubSeq(elems, start + del + 1, len),
                ret |-> NewArray, removed |-> SubSeq(elems, start + 1, start + del)]
      [] method = "sort" -> [elems |-> DefaultSort(elems), ret |-> Self, removed |-> <<>>]
      [] method = "reverse" ->
            [elems |-> [i \in 1..len |-> elems[len + 1 - i]], ret |-> Self, removed |-> <<>>]
      [] method = "fill" ->
            LET start == Min(ArgOr(args, 2, 0), len)
                end == Min(ArgOr(args, 3, len), len)
                value == IF Len(args) >= 1 THEN args[1] ELSE Undef
            IN [elems |-> [i \in 1..len |-> IF i > start /\ i <= end THEN value ELSE elems[i]],
                ret |-> Self, removed |-> <<>>]
      [] method = "copyWithin" ->
            LET to == Min(ArgOr(args, 1, 0), len)
                from == Min(ArgOr(args, 2, 0), len)
                final == Min(ArgOr(args, 3, len), len)
                count == Min(final - from, len - to)
            IN [elems |-> [i \in 1..len |-> IF i > to /\ i <= to + count
                                            THEN elems[from + (i - to)] ELSE elems[i]],
                ret |-> Self, removed |-> <<>>]

\* (variant: the event of a mutating method is emitted before the method is applied)
CallMutatorEmitFirst(st, pid, prop, args, d) ==
    LET obj == st.heap[pid].target
        namespace == st.heap[pid].ns
    IN Bind(ArrayApply(st.heap[obj].elems, prop, args), LAMBDA r :
       Bind(Emit(st, namespace \o ":change",
                 MutationPayload(prop, args, Len(st.heap[obj].elems)), d), LAMBDA s0 :
            [st |-> [s0 EXCEPT !.heap[obj].elems = r.elems,
                               !.log = Append(@, [NoStep EXCEPT !.k = "apply", !.d = d,
                                                                !.ev = prop, !.obj = obj])],
             val |-> IF r.ret = Self THEN Ref(obj) ELSE r.ret]))

\* The function returned by the get trap for a mutating method name, called
\* with args: Array.prototype[prop].apply(obj, args), one #emit, return result.
CallMutator(st, pid, prop, args, d) ==
    LET obj == st.heap[pid].target
        namespace == st.heap[pid].ns
    IN Bind(ArrayApply(st.heap[obj].elems, prop, args), LAMBDA r :
       Bind([st EXCEPT !.heap[obj].elems = r.elems,
                       !.log = Append(@, [NoStep EXCEPT !.k = "apply", !.d = d, !.ev = prop,
                                                        !.obj = obj])], LAMBDA s1 :
            [st |-> Emit(s1, namespace \o ":change",
                         MutationPayload(prop, args, Len(s1.heap[obj].elems)), d),
             val |-> IF r.ret = Self THEN Ref(obj) ELSE r.ret]))

(***************************************************************************)
(* The operations of the caller.                                           *)
(***************************************************************************)
St == [heap |-> heap, cache |-> cache, fields |-> fields, L |-> listeners,
       log |-> <<>>, threw |-> FALSE, pl |-> NoPayload]

NoLast == [op |-> "", path |-> <<>>, prop |-> "", value |-> Undef, args |-> <<>>, ev |-> "",
           entry |-> NoEntry, node |-> 0, ns |-> "", old |-> Undef, ret |-> Undef,
           threw |-> FALSE, events |-> {}, count |-> 0, has |-> FALSE]

RECURSIVE SumLen(_, _)
SumLen(L, S) == IF S = {} THEN 0
                ELSE LET e == CHOOSE x \in S : TRUE IN Len(L[e]) + SumLen(L, S \ {e})
TotalListeners(L) == SumLen(L, DOMAIN L)

\* Object literals the caller writes.  "tree": {b: {c: 1}}, "leaf": {c: 2}, "list": [],
\* "shared": const o = {c: 1} in {b: o, d: o}
AllocRaw(st, object) ==
    [st |-> [st EXCEPT !.heap = Append(@, object), !.cache = Append(@, 0)],
     val |-> Ref(Len(st.heap) + 1)]
Literal(st, shape) ==
    CASE shape = "tree" ->
            Bind(AllocRaw(st, RawObject([NoProps EXCEPT !["c"] = Num(1)])), LAMBDA inner :
                 AllocRaw(inner.st, RawObject([NoProps EXCEPT !["b"] = inner.val])))
      [] shape = "leaf" -> AllocRaw(st, RawObject([NoProps EXCEPT !["c"] = Num(2)]))
      [] shape = "list" -> AllocRaw(st, RawArray(<<>>))
      [] shape = "shared" ->
            Bind(AllocRaw(st, RawObject([NoProps EXCEPT !["c"] = Num(1)])), LAMBDA o :
                 AllocRaw(o.st, RawObject([NoProps EXCEPT !["b"] = o.val, !["d"] = o.val])))

\* What the caller assigns: a primitive, a new object literal, or the value
\* of ctx.<name>, which the getter of the field returns without an event.
Prims == {Num(1), Num(2), Null}
Assignable == [t : {"prim"}, v : Prims] \cup {[t |-> "literal", v |-> Ref(0)]}
FieldValue(name) == [t |-> "field", v |-> name]
Assigned(st, choice) ==
    IF choice.t = "prim" THEN [st |-> st, val |-> choice.v]
    ELSE IF choice.t = "field"
    THEN [st |-> st, val |-> IF choice.v \in DOMAIN st.fields THEN st.fields[choice.v] ELSE Undef]
    ELSE Literal(st, "leaf")

\* The definitions passed to createReactiveFields: field names in entry order,
\* each with the initial value InitialShape gives it.
FieldNames == {"a", "x", "s", "items"}
InitialShape(name) ==
    IF name = "items" THEN "list" ELSE IF name = "s" THEN "shared" ELSE "tree"

\* (variant: the setter emits a specific event before the event of the field)
FieldSetSpecificToo(st, field_name, new_value, d) ==
    LET old_value == st.fields[field_name]
        s0 == IF IsObjectValue(old_value)
              THEN Logged(st, [NoStep EXCEPT !.k = "warn", !.d = d, !.ev = field_name])
              ELSE st
    IN Bind(createReactive(s0, new_value, field_name), LAMBDA r :
       Bind([r.st EXCEPT !.fields[field_name] = r.val,
                         !.log = Append(@, [NoStep EXCEPT
                                                !.k = "store", !.d = d, !.ev = field_name,
                                                !.pl = ChangePayload(field_name, Undef, r.val)])],
            LAMBDA s1 :
       Bind(Emit(s1, field_name \o ":" \o field_name \o ":change",
                 ChangePayload(field_name, old_value, new_value), d), LAMBDA s2 :
            Emit(s2, field_name \o ":change",
                 ChangePayload(field_name, old_value, new_value), d))))

\* The setter that createReactiveFields installs for field_name.
FieldSet(st, field_name, new_value, d) ==
    LET old_value == st.fields[field_name]
        s0 == IF IsObjectValue(old_value)
              THEN Logged(st, [NoStep EXCEPT !.k = "warn", !.d = d, !.ev = field_name])
              ELSE st
    IN Bind(createReactive(s0, new_value, field_name), LAMBDA r :
       Bind([r.st EXCEPT !.fields[field_name] = r.val,
                         !.log = Append(@, [NoStep EXCEPT
                                                !.k = "store", !.d = d, !.ev = field_name,
                                                !.pl = ChangePayload(field_name, Undef, r.val)])],
            LAMBDA s1 :
                Emit(s1, field_name \o ":change",
                     ChangePayload(field_name, old_value, new_value), d)))

\* (variant: createReactiveFields tests #fields instead of the host's own properties)
RECURSIVE DefineFromDeclaredOnly(_, _, _, _)
DefineFromDeclaredOnly(st, ownNames, definitions, i) ==
    IF i > Len(definitions) THEN [st |-> st, own |-> ownNames, threw |-> FALSE]
    ELSE LET field_name == definitions[i] IN
         IF field_name \in DOMAIN st.fields THEN [st |-> st, own |-> ownNames, threw |-> TRUE]
         ELSE Bind(Literal(st, InitialShape(field_name)), LAMBDA initial_value :
              Bind(createReactive(initial_value.st, initial_value.val, field_name), LAMBDA r :
              Bind([r.st EXCEPT !.fields =
                        [f \in DOMAIN @ \cup {field_name} |->
                            IF f = field_name THEN r.val ELSE @[f]]], LAMBDA s1 :
                   DefineFromDeclaredOnly(s1, ownNames \cup {field_name}, definitions, i + 1))))

\* (variant: createReactiveFields tests every name before it installs a field)
RECURSIVE DefineFromAllOrNothing(_, _, _, _)
DefineFromAllOrNothing(st, ownNames, definitions, i) ==
    IF i > Len(definitions) THEN [st |-> st, own |-> ownNames, threw |-> FALSE]
    ELSE LET field_name == definitions[i] IN
         IF \E j \in i..Len(definitions) : definitions[j] \in ownNames
         THEN [st |-> st, own |-> ownNames, threw |-> TRUE]
         ELSE Bind(Literal(st, InitialShape(field_name)), LAMBDA initial_value :
              Bind(createReactive(initial_value.st, initial_value.val, field_name), LAMBDA r :
              Bind([r.st EXCEPT !.fields =
                        [f \in DOMAIN @ \cup {field_name} |->
                            IF f = field_name THEN r.val ELSE @[f]]], LAMBDA s1 :
                   DefineFromAllOrNothing(s1, ownNames \cup {field_name}, definitions,
                                          i + 1))))

\* The loop of createReactiveFields over the entries from position i on; ownNames
\* are the host's own property names.  The result is [st, own, threw].
RECURSIVE DefineFrom(_, _, _, _)
DefineFrom(st, ownNames, definitions, i) ==
    IF i > Len(definitions) THEN [st |-> st, own |-> ownNames, threw |-> FALSE]
    ELSE LET field_name == definitions[i] IN
         IF field_name \in ownNames THEN [st |-> st, own |-> ownNames, threw |-> TRUE]
         ELSE Bind(Literal(st, InitialShape(field_name)), LAMBDA initial_value :
              Bind(createReactive(initial_value.st, initial_value.val, field_name), LAMBDA r :
              Bind([r.st EXCEPT !.fields =
                        [f \in DOMAIN @ \cup {field_name} |->
                            IF f = field_name THEN r.val ELSE @[f]]], LAMBDA s1 :
                   DefineFrom(s1, ownNames \cup {field_name}, definitions, i + 1))))

\* ctx.<path[1]>.<path[2]>. ... : the field getter, then one property read per
\* further name; from position i on with val the value reached so far.
RECURSIVE EvalFrom(_, _, _, _, _)
EvalFrom(st, val, path, i, d) ==
    IF i > Len(path) \/ ~IsObjectValue(val) THEN [st |-> st, val |-> val]
    ELSE Bind(ObjGet(st, val.v, path[i], d), LAMBDA r : EvalFrom(r.st, r.val, path, i + 1, d))
EvalPath(st, path, d) ==
    IF path[1] \in DOMAIN st.fields THEN EvalFrom(st, st.fields[path[1]], path, 2, d)
    ELSE [st |-> st, val |-> Undef]

(***************************************************************************)
(* Garbage collection.  The caller reaches objects only through the host's *)
(* fields; #proxy_cache is a WeakMap, so it keeps a Proxy alive only while *)
(* its raw target is alive.  An object that is no longer reachable is      *)
(* replaced by Collected and its cache entry is dropped (log and last may  *)
(* still name it).                                                         *)
(***************************************************************************)
Collected == [kind |-> "collected", props |-> NoProps, elems |-> <<>>, target |-> 0, ns |-> ""]

RefsOf(h, c, i) ==
    {h[i].props[k].v : k \in {k \in PropKeys : h[i].props[k].t = "ref"}}
      \cup {h[i].elems[j].v : j \in {j \in 1..Len(h[i].elems) : h[i].elems[j].t = "ref"}}
      \cup (IF h[i].target # 0 THEN {h[i].target} ELSE {})
      \cup (IF c[i] # 0 THEN {c[i]} ELSE {})

RECURSIVE Reachable(_, _, _)
Reachable(h, c, S) ==
    Bind(S \cup UNION {RefsOf(h, c, i) : i \in S}, LAMBDA more :
         IF more = S THEN S ELSE Reachable(h, c, more))

Live(st) ==
    Reachable(st.heap, st.cache,
              {st.fields[f].v : f \in {f \in DOMAIN st.fields : st.fields[f].t = "ref"}}
                \cup {r.v : r \in refs})

\* The operation does not return: a dispatch loop of it does not end.
Hangs(trace) == \E i \in 1..Len(trace) : trace[i].k = "cut"

\* The state the operation leaves.  An operation that does not return leaves
\* the program inside it: nothing runs afterwards, and the variables keep
\* the state in which the operation started, with the cut in the trace.
Commit(st) ==
    /\ ~Hangs(log)
    /\ IF Hangs(st.log)
       THEN /\ heap' = heap
            /\ cache' = cache
            /\ fields' = fields
            /\ listeners' = listeners
            /\ log' = SelectSeq(st.log, LAMBDA step : step.k = "cut")
       ELSE /\ Len(st.heap) <= MaxHeap
            /\ TotalListeners(st.L) <= MaxListeners
            /\ \A i \in 1..Len(st.heap) : Len(st.heap[i].elems) <= MaxArrayLen
            /\ \E live \in {Live(st)} :
               /\ heap' = [i \in 1..Len(st.heap) |->
                              IF i \in live THEN st.heap[i] ELSE Collected]
               /\ cache' = [i \in 1..Len(st.heap) |->
                               IF i \in live THEN st.cache[i] ELSE 0]
            /\ fields' = st.fields
            /\ listeners' = st.L
            /\ log' = st.log

CreateReactiveFields(definitions) ==
    \E r \in {DefineFrom(St, own, definitions, 1)} :
        /\ Commit(r.st)
        /\ own' = r.own
        /\ last' = [NoLast EXCEPT !.op = "createReactiveFields", !.path = definitions,
                                  !.threw = r.threw]
        /\ UNCHANGED <<nextWrapper, unsubs, refs, drag, spring, query>>

\* const x = ctx.<name>
FieldRead(name) ==
    /\ name \in DOMAIN fields
    /\ Commit(St)
    /\ last' = [NoLast EXCEPT !.op = "fieldRead", !.path = <<name>>, !.ret = fields[name]]
    /\ UNCHANGED <<own, nextWrapper, unsubs, refs, drag, spring, query>>

\* ctx.<name> = value
FieldWrite(name, choice) ==
    /\ name \in DOMAIN fields
    /\ \E v \in {Assigned(St, choice)} :
       \E s \in {FieldSet(v.st, name, v.val, 0)} :
          /\ Commit(s)
          /\ last' = [NoLast EXCEPT !.op = "fieldWrite", !.path = <<name>>, !.prop = name,
                                    !.value = v.val, !.old = fields[name], !.threw = s.threw]
    /\ UNCHANGED <<own, nextWrapper, unsubs, refs, drag, spring, query>>

\* const x = ctx.<path>.<prop>
Read(path, prop) ==
    \E r \in {EvalPath(St, path, 0)} :
        /\ IsObjectValue(r.val)
        /\ ~(IsArray(r.st.heap, r.val.v) /\ prop \in ARRAY_MUTATORS)
        /\ \E g \in {ObjGet(r.st, r.val.v, prop, 0)} :
           /\ Commit(g.st)
           /\ last' = [NoLast EXCEPT !.op = "read", !.path = path, !.prop = prop,
                                     !.node = r.val.v, !.ns = r.st.heap[r.val.v].ns,
                                     !.old = RawGet(r.st.heap, r.st.heap[r.val.v].target, prop),
                                     !.ret = g.val, !.threw = g.st.threw]
        /\ UNCHANGED <<own, nextWrapper, unsubs, refs, drag, spring, query>>

\* delete ctx.<path>.<prop>: the handler has no deleteProperty trap
Delete(path, prop) ==
    \E r \in {EvalPath(St, path, 0)} :
        /\ IsObjectValue(r.val)
        /\ ~IsArray(r.st.heap, r.val.v)
        /\ \E s \in {[r.st EXCEPT !.heap[r.st.heap[r.val.v].target].props[prop] = Absent]} :
           /\ Commit(s)
           /\ last' = [NoLast EXCEPT !.op = "delete", !.path = path, !.prop = prop,
                                     !.node = r.val.v, !.ns = r.st.heap[r.val.v].ns,
                                     !.old = RawGet(r.st.heap, r.st.heap[r.val.v].target, prop),
                                     !.threw = s.threw]
        /\ UNCHANGED <<own, nextWrapper, unsubs, refs, drag, spring, query>>

\* ctx.<path>.<prop> = value
Write(path, prop, choice) ==
    \E r \in {EvalPath(St, path, 0)} :
        /\ IsObjectValue(r.val)
        /\ (IsIndex(prop) <=> IsArray(r.st.heap, r.val.v))
        /\ (IsIndex(prop) => choice.t = "prim")
        /\ \E v \in {Assigned(r.st, choice)} :
           \E s \in {ObjSet(v.st, r.val.v, prop, v.val, 0)} :
              /\ Commit(s)
              /\ last' = [NoLast EXCEPT
                            !.op = "write", !.path = path, !.prop = prop, !.value = v.val,
                            !.node = r.val.v, !.ns = r.st.heap[r.val.v].ns,
                            !.old = RawGet(r.st.heap, r.st.heap[r.val.v].target, prop),
                            !.threw = s.threw]
        /\ UNCHANGED <<own, nextWrapper, unsubs, refs, drag, spring, query>>

\* ctx.<path>.<method>(...args)
Mutate(path, method, args) ==
    \E r \in {EvalPath(St, path, 0)} :
        /\ IsObjectValue(r.val)
        /\ IsArray(r.st.heap, r.val.v)
        /\ \E g \in {ObjGet(r.st, r.val.v, method, 0)} :
           /\ g.val.t = "fn"
           /\ \E c \in {CallMutator(g.st, g.val.v, method, args, 0)} :
              /\ Commit(c.st)
              /\ last' = [NoLast EXCEPT
                            !.op = "mutate", !.path = path, !.prop = method, !.args = args,
                            !.node = r.val.v, !.ns = r.st.heap[r.val.v].ns, !.ret = c.val,
                            !.threw = c.st.threw]
        /\ UNCHANGED <<own, nextWrapper, unsubs, refs, drag, spring, query>>

\* const ref = ctx.<path>.<method>(...args): the caller keeps the array returned
MutateKeep(path, method, args) ==
    /\ Cardinality(refs) < MaxRefs
    /\ \E r \in {EvalPath(St, path, 0)} :
        /\ IsObjectValue(r.val)
        /\ IsArray(r.st.heap, r.val.v)
        /\ \E g \in {ObjGet(r.st, r.val.v, method, 0)} :
           /\ g.val.t = "fn"
           /\ \E c \in {CallMutator(g.st, g.val.v, method, args, 0)} :
              /\ IsObjectValue(c.val)
              /\ Commit(c.st)
              /\ refs' = refs \cup {c.val}
              /\ last' = [NoLast EXCEPT
                            !.op = "mutate", !.path = path, !.prop = method, !.args = args,
                            !.node = r.val.v, !.ns = r.st.heap[r.val.v].ns, !.ret = c.val,
                            !.threw = c.st.threw]
    /\ UNCHANGED <<own, nextWrapper, unsubs, drag, spring, query>>

\* const ref = ctx.<path>: the caller keeps the reactive node it read
Hold(path) ==
    /\ Cardinality(refs) < MaxRefs
    /\ \E r \in {EvalPath(St, path, 0)} :
        /\ IsObjectValue(r.val)
        /\ Commit(r.st)
        /\ refs' = refs \cup {r.val}
        /\ last' = [NoLast EXCEPT !.op = "hold", !.path = path, !.node = r.val.v,
                                  !.ret = r.val, !.threw = r.st.threw]
    /\ UNCHANGED <<own, nextWrapper, unsubs, drag, spring, query>>

\* the variable that kept ref goes out of scope
Release(ref) ==
    /\ ref \in refs
    /\ refs' = refs \ {ref}
    /\ Commit(St)
    /\ last' = [NoLast EXCEPT !.op = "release", !.node = ref.v]
    /\ UNCHANGED <<own, nextWrapper, unsubs, drag, spring, query>>

\* ref.<prop> = value
WriteRef(ref, prop, choice) ==
    /\ ref \in refs
    /\ \E v \in {Assigned(St, choice)} :
       \E s \in {ObjSet(v.st, ref.v, prop, v.val, 0)} :
          /\ Commit(s)
          /\ last' = [NoLast EXCEPT
                        !.op = "writeRef", !.prop = prop, !.value = v.val, !.node = ref.v,
                        !.ns = heap[ref.v].ns,
                        !.old = IF heap[ref.v].kind = "proxy"
                                THEN RawGet(heap, heap[ref.v].target, prop)
                                ELSE RawGet(heap, ref.v, prop),
                        !.threw = s.threw]
    /\ UNCHANGED <<own, nextWrapper, unsubs, refs, drag, spring, query>>

\* this.<name> = 1 in the constructor of a subclass, for a name that is not a field
OtherNames == {"x"}
DefineOwn(name) ==
    /\ name \notin own
    /\ own' = own \cup {name}
    /\ Commit(St)
    /\ last' = [NoLast EXCEPT !.op = "defineOwn", !.path = <<name>>]
    /\ UNCHANGED <<nextWrapper, unsubs, refs, drag, spring, query>>

\* The calls of the mutating methods the caller makes.
MutatorCalls ==
    {<<"push", <<Num(1)>> >>, <<"push", <<Num(2)>> >>, <<"pop", <<>> >>, <<"shift", <<>> >>,
     <<"unshift", <<Num(2)>> >>, <<"splice", <<Num(0), Num(1)>> >>,
     <<"splice", <<Num(1), Num(0), Num(2)>> >>, <<"sort", <<>> >>, <<"reverse", <<>> >>,
     <<"fill", <<Num(1)>> >>, <<"copyWithin", <<Num(0), Num(1)>> >>}

MaxHeld == 1          \* cleanup closures the caller keeps
\* A closure captures the event and the function of its on call and nothing
\* else; of the closures of equal on calls the caller keeps one, and invokes
\* a closure it keeps any number of times.
Keep(closure) == IF Cardinality(unsubs) < MaxHeld THEN unsubs \cup {closure} ELSE unsubs

\* const cleanup = ctx.on(event, cb)
On(event, cb) ==
    /\ \E s \in {OnSt(St, event, Plain(cb), 0, 0)} : Commit(s)
    /\ unsubs' = Keep([ev |-> event, entry |-> Plain(cb)])
    /\ last' = [NoLast EXCEPT !.op = "on", !.ev = event, !.entry = Plain(cb)]
    /\ UNCHANGED <<own, nextWrapper, refs, drag, spring, query>>

\* ctx.off(event, cb)
Off(event, cb) ==
    /\ \E s \in {OffSt(St, event, Plain(cb), 0, 0)} : Commit(s)
    /\ last' = [NoLast EXCEPT !.op = "off", !.ev = event, !.entry = Plain(cb)]
    /\ UNCHANGED <<own, nextWrapper, unsubs, refs, drag, spring, query>>

\* const cleanup = ctx.once(event, cb): on(event, wrapper), whose closure is
\* () => this.off(event, wrapper)
Once(event, cb) ==
    /\ nextWrapper <= MaxWrappers
    /\ \E s \in {OnSt(St, event, Wrapper(cb, nextWrapper), 0, 0)} : Commit(s)
    /\ nextWrapper' = nextWrapper + 1
    /\ unsubs' = Keep([ev |-> event, entry |-> Wrapper(cb, nextWrapper)])
    /\ last' = [NoLast EXCEPT !.op = "once", !.ev = event, !.entry = Wrapper(cb, nextWrapper)]
    /\ UNCHANGED <<own, refs, drag, spring, query>>

\* cleanup(): a closure returned by on or once is invoked
Unsubscribe(closure) ==
    /\ closure \in unsubs
    /\ \E s \in {OffSt(St, closure.ev, closure.entry, 0, 0)} : Commit(s)
    /\ last' = [NoLast EXCEPT !.op = "unsubscribe", !.ev = closure.ev, !.entry = closure.entry]
    /\ UNCHANGED <<own, nextWrapper, unsubs, refs, drag, spring, query>>

\* removeAllListeners(event) with a string argument: if (event) is false for ''
RemoveAllListenersOf(event) ==
    /\ \E s \in {[St EXCEPT !.L = IF event # ""
                                    THEN [e \in DOMAIN listeners \cup {event} |->
                                            IF e = event THEN <<>> ELSE listeners[e]]
                                    ELSE <<>>]} : Commit(s)
    /\ last' = [NoLast EXCEPT !.op = "removeAllListeners", !.ev = event, !.path = <<event>>]
    /\ UNCHANGED <<own, nextWrapper, unsubs, refs, drag, spring, query>>

\* removeAllListeners()
RemoveAllListeners ==
    /\ \E s \in {[St EXCEPT !.L = <<>>]} : Commit(s)
    /\ last' = [NoLast EXCEPT !.op = "removeAllListeners"]
    /\ UNCHANGED <<own, nextWrapper, unsubs, refs, drag, spring, query>>

\* Object.keys(this.#listeners), as a set
getRegisteredEvents(L) == DOMAIN L
\* this.#listeners[event]?.length ?? 0
getListenerCount(L, event) == IF event \in DOMAIN L THEN Len(L[event]) ELSE 0
\* (variant: hasListeners tests that the event has an array)
hasListenersAnyArray(L, event) == event \in DOMAIN L
\* this.getListenerCount(event) > 0
hasListeners(L, event) == getListenerCount(L, event) > 0

\* ctx.getRegisteredEvents()
GetRegisteredEvents ==
    /\ Commit(St)
    /\ last' = [NoLast EXCEPT !.op = "getRegisteredEvents",
                              !.events = getRegisteredEvents(listeners)]
    /\ UNCHANGED <<own, nextWrapper, unsubs, refs, drag, spring, query>>

\* ctx.getListenerCount(event)
GetListenerCount(event) ==
    /\ Commit(St)
    /\ last' = [NoLast EXCEPT !.op = "getListenerCount", !.ev = event,
                              !.count = getListenerCount(listeners, event)]
    /\ UNCHANGED <<own, nextWrapper, unsubs, refs, drag, spring, query>>

\* ctx.hasListeners(event)
HasListeners(event) ==
    /\ Commit(St)
    /\ last' = [NoLast EXCEPT !.op = "hasListeners", !.ev = event,
                              !.has = hasListeners(listeners, event)]
    /\ UNCHANGED <<own, nextWrapper, unsubs, refs, drag, spring, query>>

\* The state of a new ReactiveContext (the field initialisers of the class).
(***************************************************************************)
(* DragToScrollOnPC (src/DragToScrollOnPc/index.js).  The record drag      *)
(* holds one scrollable element of a page, the instance constructed on it  *)
(* and the part of the browser the instance talks to: the clock, the       *)
(* pointer and the animation frame requests.  Lengths are pixels, times    *)
(* are milliseconds; the caller constructs the instance with small values  *)
(* of the numeric options.                                                 *)
(*                                                                         *)
(* velocityX and velocityY are floating-point numbers.  The model keeps    *)
(* of each only whether it is exactly 0 (FALSE) or may differ from 0       *)
(* (TRUE), and draws what depends on its magnitude (the amplitude test of  *)
(* _applyInertia, the target of the animation and the eased positions)     *)
(* from every outcome the arithmetic allows.                               *)
(***************************************************************************)
MaxCoord == 2         \* clientX of a pointer event is in 0..MaxCoord
MaxTime == 2          \* the clock runs from 0 to MaxTime
MaxMoves == 2         \* entries of _recentMoves
MaxFrames == 2        \* requestAnimationFrame calls
\* The element scrolls horizontally by one pixel and not vertically
\* (maxLeft = scrollWidth - clientWidth, maxTop = scrollHeight - clientHeight),
\* and the gestures are horizontal: clientY is 0.
Element == [maxLeft |-> 1, maxTop |-> 0]
Ys == {0}

\* this.opts = { ...defaults, ...options }
DefaultOpts ==
    [axis |-> "both", desktopOnly |-> TRUE, cancelClickOnDrag |-> TRUE,
     dragThresholdPx |-> 3, useInertia |-> TRUE, inertiaDurationMs |-> 600,
     inertiaIdleTimeoutMs |-> 150, recentWindowMs |-> 300,
     minRecentTravelPx |-> 10, setCursors |-> TRUE,
     preventTextSelection |-> TRUE, cursorGrab |-> "grab",
     cursorGrabbing |-> "grabbing", touchAction |-> "pan-x pan-y",
     hideScrollbars |-> TRUE]
Opts(options) == options @@ DefaultOpts

\* The options objects the caller constructs instances with.
SmallOptions ==
    [dragThresholdPx |-> 1, inertiaDurationMs |-> 1, inertiaIdleTimeoutMs |-> 1,
     recentWindowMs |-> 1, minRecentTravelPx |-> 1]
OptionSets ==
    {SmallOptions,
     [cancelClickOnDrag |-> FALSE, useInertia |-> FALSE, axis |-> "x"]
         @@ SmallOptions,
     [setCursors |-> FALSE, preventTextSelection |-> FALSE, touchAction |-> "",
      hideScrollbars |-> FALSE, desktopOnly |-> FALSE] @@ SmallOptions}

\* The inline style of the element, and the styles a page gives it before
\* it constructs the instance.
PlainStyle ==
    [cursor |-> "", userSelect |-> "", touchAction |-> "",
     scrollbarWidth |-> "", msOverflowStyle |-> ""]
PageStyles ==
    {PlainStyle,
     [cursor |-> "pointer", userSelect |-> "text", touchAction |-> "none",
      scrollbarWidth |-> "thin", msOverflowStyle |-> "auto"]}

HideClass == "d2s-hide-scrollbar"
NoFrames == [i \in {} |-> 0]
NoClick == [seen |-> FALSE, cancelled |-> FALSE, far |-> FALSE, tracked |-> FALSE]

NoDrag ==
    [phase |-> "none",          \* "none", "active", "destroyed"
     opts |-> DefaultOpts,
     \* the element
     style |-> PlainStyle, classList |-> {}, handlers |-> {},
     scrollLeft |-> 0, scrollTop |-> 0,
     \* the instance
     noop |-> FALSE, isDown |-> FALSE, dragged |-> FALSE, startX |-> 0, startY |-> 0,
     startScrollLeft |-> 0, startScrollTop |-> 0, lastX |-> 0, lastY |-> 0,
     lastT |-> 0, velocityX |-> FALSE, velocityY |-> FALSE, rafId |-> 0,
     recentMoves |-> <<>>, origCursor |-> "", origUserSelect |-> "",
     origTouchAction |-> "", origScrollbarWidth |-> "",
     origMsOverflowStyle |-> "", hideClass |-> "",
     \* the browser
     now |-> 0, frames |-> NoFrames, nextFrame |-> 1, pressed |-> FALSE,
     clickDue |-> FALSE,
     \* history: the style before construction, the gesture in progress (where
     \* it started, whether the instance follows it from the press to the
     \* release, whether the pointer went farther than dragThresholdPx from
     \* its start), the last click and the state in which destroy() was called
     before |-> PlainStyle, downX |-> 0, downY |-> 0, tracked |-> FALSE,
     far |-> FALSE, click |-> NoClick,
     at |-> [down |-> FALSE, frame |-> FALSE]]

Clamp(v, min, max) == IF v < min THEN min ELSE IF v > max THEN max ELSE v
Abs(n) == IF n < 0 THEN -n ELSE n
Between(a, b) == IF a <= b THEN a..b ELSE b..a

\* new DragToScrollOnPC(element, options); coarse: the device has a coarse
\* pointer or touch points
constructor(d, options, coarse) ==
    LET opts == Opts(options) IN
    IF opts.desktopOnly /\ coarse
    THEN [d EXCEPT !.phase = "active", !.opts = opts, !.before = d.style,
                   !.noop = TRUE]
    ELSE [d EXCEPT
             !.phase = "active", !.opts = opts, !.before = d.style,
             !.isDown = FALSE, !.dragged = FALSE, !.rafId = 0,
             !.recentMoves = <<>>,
             !.origCursor = d.style.cursor,
             !.origUserSelect = d.style.userSelect,
             !.origTouchAction = d.style.touchAction,
             !.origScrollbarWidth = d.style.scrollbarWidth,
             !.origMsOverflowStyle = d.style.msOverflowStyle,
             !.style = [cursor |-> IF opts.setCursors THEN opts.cursorGrab
                                   ELSE d.style.cursor,
                        userSelect |-> d.style.userSelect,
                        touchAction |-> IF opts.touchAction # ""
                                        THEN opts.touchAction
                                        ELSE d.style.touchAction,
                        scrollbarWidth |-> IF opts.hideScrollbars THEN "none"
                                           ELSE d.style.scrollbarWidth,
                        msOverflowStyle |-> IF opts.hideScrollbars THEN "none"
                                            ELSE d.style.msOverflowStyle],
             !.hideClass = IF opts.hideScrollbars THEN HideClass ELSE "",
             !.classList = IF opts.hideScrollbars THEN @ \cup {HideClass} ELSE @,
             !.handlers = {"pointerdown", "pointermove", "pointerup",
                           "pointercancel", "mouseleave"}
                          \cup (IF opts.cancelClickOnDrag THEN {"click"} ELSE {})]

\* _cancelRaf()
cancelRaf(d) ==
    IF d.rafId # 0
    THEN [d EXCEPT !.frames = [i \in DOMAIN @ \ {d.rafId} |-> @[i]], !.rafId = 0]
    ELSE d

\* (variant: destroy() leaves the requested animation frame pending)
destroyKeepsFrame(d) ==
    IF d.noop THEN d
    ELSE LET d1 == [d EXCEPT
                 !.handlers = {},
                 !.style = [cursor |-> IF d.opts.setCursors THEN d.origCursor
                                       ELSE @.cursor,
                            userSelect |-> IF d.opts.preventTextSelection
                                           THEN d.origUserSelect ELSE @.userSelect,
                            touchAction |-> IF d.opts.touchAction # ""
                                            THEN d.origTouchAction
                                            ELSE @.touchAction,
                            scrollbarWidth |-> IF d.opts.hideScrollbars
                                               THEN d.origScrollbarWidth
                                               ELSE @.scrollbarWidth,
                            msOverflowStyle |-> IF d.opts.hideScrollbars
                                                THEN d.origMsOverflowStyle
                                                ELSE @.msOverflowStyle],
                 !.classList = IF d.opts.hideScrollbars /\ d.hideClass # ""
                               THEN @ \ {d.hideClass} ELSE @]
         IN [d1 EXCEPT !.dragged = FALSE, !.recentMoves = <<>>]

\* destroy()
destroy(d) ==
    IF d.noop THEN d
    ELSE LET d1 == [d EXCEPT
                 !.handlers = {},
                 !.style = [cursor |-> IF d.opts.setCursors THEN d.origCursor
                                       ELSE @.cursor,
                            userSelect |-> IF d.opts.preventTextSelection
                                           THEN d.origUserSelect ELSE @.userSelect,
                            touchAction |-> IF d.opts.touchAction # ""
                                            THEN d.origTouchAction
                                            ELSE @.touchAction,
                            scrollbarWidth |-> IF d.opts.hideScrollbars
                                               THEN d.origScrollbarWidth
                                               ELSE @.scrollbarWidth,
                            msOverflowStyle |-> IF d.opts.hideScrollbars
                                                THEN d.origMsOverflowStyle
                                                ELSE @.msOverflowStyle],
                 !.classList = IF d.opts.hideScrollbars /\ d.hideClass # ""
                               THEN @ \ {d.hideClass} ELSE @]
         IN [cancelRaf(d1) EXCEPT !.dragged = FALSE, !.recentMoves = <<>>]

\* _onPointerDown(e); ignored: e is a mouse event of a button other than the
\* primary one, or its target is inside an element of interactiveSelector
onPointerDown(d, x, y, ignored) ==
    IF ignored THEN d
    ELSE [d EXCEPT
             !.isDown = TRUE, !.dragged = FALSE,
             !.style.cursor = IF d.opts.setCursors THEN d.opts.cursorGrabbing ELSE @,
             !.style.userSelect = IF d.opts.preventTextSelection THEN "none" ELSE @,
             !.startX = x, !.startY = y,
             !.startScrollLeft = d.scrollLeft, !.startScrollTop = d.scrollTop,
             !.lastX = x, !.lastY = y, !.lastT = d.now,
             !.velocityX = FALSE, !.velocityY = FALSE,
             !.recentMoves = <<[t |-> d.now, x |-> x, y |-> y]>>]

\* while (recentMoves.length && recentMoves[0].t < cutoff) recentMoves.shift()
RECURSIVE Prune(_, _)
Prune(moves, cutoff) ==
    IF moves # <<>> /\ Head(moves).t < cutoff THEN Prune(Tail(moves), cutoff)
    ELSE moves

\* _onPointerMove(e)
onPointerMove(d, x, y) ==
    IF ~d.isDown THEN d
    ELSE LET dx == x - d.startX
             dy == y - d.startY
             thr == d.opts.dragThresholdPx
             dt == d.now - d.lastT
         IN [d EXCEPT
                !.dragged = @ \/ dx * dx + dy * dy > thr * thr,
                !.scrollLeft = IF d.opts.axis \in {"x", "both"}
                               THEN Clamp(d.startScrollLeft - dx, 0, Element.maxLeft)
                               ELSE @,
                !.scrollTop = IF d.opts.axis \in {"y", "both"}
                              THEN Clamp(d.startScrollTop - dy, 0, Element.maxTop)
                              ELSE @,
                !.velocityX = IF dt > 0 THEN @ \/ x # d.lastX ELSE @,
                !.velocityY = IF dt > 0 THEN @ \/ y # d.lastY ELSE @,
                !.lastX = x, !.lastY = y, !.lastT = d.now,
                !.recentMoves = Prune(Append(@, [t |-> d.now, x |-> x, y |-> y]),
                                      d.now - d.opts.recentWindowMs)]

\* requestAnimationFrame(step), step being the closure c
requestFrame(d, c) ==
    [d EXCEPT !.frames = (d.nextFrame :> c) @@ @, !.rafId = d.nextFrame,
              !.nextFrame = @ + 1]

\* _applyInertia(): the instances it may leave, one for each outcome of the
\* amplitude tests and each target
applyInertia(d) ==
    LET maxLeft == Element.maxLeft
        maxTop == Element.maxTop
        shouldXs == IF d.opts.axis \in {"x", "both"} /\ d.velocityX /\ maxLeft > 0
                    THEN BOOLEAN ELSE {FALSE}
        shouldYs == IF d.opts.axis \in {"y", "both"} /\ d.velocityY /\ maxTop > 0
                    THEN BOOLEAN ELSE {FALSE}
    IN UNION {
         IF ~shouldX /\ ~shouldY THEN {d}
         ELSE { requestFrame(cancelRaf(d),
                    [start |-> d.now, shouldX |-> shouldX, shouldY |-> shouldY,
                     initialLeft |-> d.scrollLeft, initialTop |-> d.scrollTop,
                     targetLeft |-> targetLeft, targetTop |-> targetTop]) :
                  targetLeft \in IF shouldX THEN 0..maxLeft ELSE {d.scrollLeft},
                  targetTop \in IF shouldY THEN 0..maxTop ELSE {d.scrollTop} } :
         shouldX \in shouldXs, shouldY \in shouldYs }

\* the recent-travel guard of _onPointerUpLike
tooLittleRecentTravel(d) ==
    LET n == Len(d.recentMoves)
        dx == IF n >= 2 THEN d.recentMoves[n].x - d.recentMoves[1].x ELSE 0
        dy == IF n >= 2 THEN d.recentMoves[n].y - d.recentMoves[1].y ELSE 0
        min == d.opts.minRecentTravelPx
    IN IF d.opts.axis = "x" THEN Abs(dx) < min
       ELSE IF d.opts.axis = "y" THEN Abs(dy) < min
       ELSE dx * dx + dy * dy < min * min

\* _onPointerUpLike(e): the instances it may leave
onPointerUpLike(d) ==
    IF ~d.isDown THEN {d}
    ELSE LET d1 == [d EXCEPT
                 !.isDown = FALSE,
                 !.style.cursor = IF d.opts.setCursors THEN d.opts.cursorGrab ELSE @,
                 !.style.userSelect = IF d.opts.preventTextSelection
                                      THEN d.origUserSelect ELSE @]
             idleTooLong == d.now - d.lastT >= d.opts.inertiaIdleTimeoutMs
             after == IF d1.dragged /\ d1.opts.useInertia
                         /\ ~idleTooLong /\ ~tooLittleRecentTravel(d1)
                      THEN applyInertia(d1) ELSE {d1}
         IN { [d2 EXCEPT !.dragged = FALSE, !.recentMoves = <<>>] : d2 \in after }

\* _onClickCapture(e): the instance afterwards, and whether the handler
\* called e.preventDefault() and e.stopPropagation()
onClickCapture(d) ==
    [d |-> [d EXCEPT !.dragged = FALSE], cancelled |-> d.dragged]

\* step(now) of the closure c requested as frame id: the instances it may leave
inertiaStep(d, id) ==
    LET c == d.frames[id]
        d0 == [d EXCEPT !.frames = [i \in DOMAIN @ \ {id} |-> @[i]]]
    IN IF d.now - c.start >= d.opts.inertiaDurationMs
       THEN {[d0 EXCEPT !.scrollLeft = IF c.shouldX THEN c.targetLeft ELSE @,
                        !.scrollTop = IF c.shouldY THEN c.targetTop ELSE @,
                        !.rafId = 0]}
       ELSE {requestFrame([d0 EXCEPT !.scrollLeft = l, !.scrollTop = t], c) :
               l \in IF c.shouldX THEN Between(c.initialLeft, c.targetLeft)
                     ELSE {d.scrollLeft},
               t \in IF c.shouldY THEN Between(c.initialTop, c.targetTop)
                     ELSE {d.scrollTop}}

(***************************************************************************)
(* The page and the browser around the instance.  A handler runs when the  *)
(* element has it attached.  The click that a press and a release on the   *)
(* element produce is dispatched after the pointerup event.                *)
(***************************************************************************)
\* The fields of a finished gesture.  No handler reads startX, startY,
\* startScrollLeft, startScrollTop, lastX, lastY, lastT, velocityX or
\* velocityY while isDown is false, or after destroy() removed the handlers,
\* and _onPointerDown assigns every one of them before it sets isDown: the
\* model does not tell apart two states that differ in them only.
Settled(d) ==
    IF d.isDown /\ d.phase = "active" THEN d
    ELSE [d EXCEPT !.startX = 0, !.startY = 0, !.startScrollLeft = 0,
                   !.startScrollTop = 0, !.lastX = 0, !.lastY = 0, !.lastT = 0,
                   !.velocityX = FALSE, !.velocityY = FALSE]

ctxVars == <<heap, cache, fields, own, listeners, nextWrapper, unsubs, refs, log, last>>

\* the page styles the element before it constructs the instance
PageStyle(style) ==
    /\ drag.phase = "none"
    /\ drag.style # style
    /\ drag' = [drag EXCEPT !.style = style]
    /\ UNCHANGED <<ctxVars, spring, query>>

Construct(options, coarse) ==
    /\ drag.phase = "none"
    /\ drag' = constructor(drag, options, coarse)
    /\ UNCHANGED <<ctxVars, spring, query>>

Destroy ==
    /\ drag.phase = "active"
    /\ \E d \in {destroy(drag)} :
         drag' = Settled([d EXCEPT !.phase = "destroyed",
                                   !.at = [down |-> drag.isDown,
                                           frame |-> drag.rafId # 0]])
    /\ UNCHANGED <<ctxVars, spring, query>>

Tick ==
    /\ drag.phase # "none"
    /\ drag.now < MaxTime
    /\ drag' = [drag EXCEPT !.now = @ + 1]
    /\ UNCHANGED <<ctxVars, spring, query>>

PointerDown(x, y, ignored) ==
    /\ drag.phase # "none"
    /\ ~drag.pressed
    /\ \E d \in {IF "pointerdown" \in drag.handlers
                 THEN onPointerDown(drag, x, y, ignored) ELSE drag} :
         drag' = [Settled(d) EXCEPT !.pressed = TRUE, !.clickDue = FALSE,
                           !.downX = x, !.downY = y, !.tracked = ~ignored,
                           !.far = FALSE, !.click = NoClick]
    /\ UNCHANGED <<ctxVars, spring, query>>

PointerMove(x, y) ==
    /\ drag.phase # "none"
    /\ Len(drag.recentMoves) < MaxMoves
    /\ \E d \in {IF "pointermove" \in drag.handlers
                 THEN onPointerMove(drag, x, y) ELSE drag} :
         drag' = [d EXCEPT
                     !.far = @ \/ (drag.pressed
                                   /\ (x - drag.downX) * (x - drag.downX)
                                      + (y - drag.downY) * (y - drag.downY)
                                      > drag.opts.dragThresholdPx
                                        * drag.opts.dragThresholdPx)]
    /\ UNCHANGED <<ctxVars, spring, query>>

PointerUp ==
    /\ drag.pressed
    /\ \E d \in (IF "pointerup" \in drag.handlers
                 THEN onPointerUpLike(drag) ELSE {drag}) :
         /\ d.nextFrame <= MaxFrames + 1
         /\ drag' = Settled([d EXCEPT !.pressed = FALSE, !.clickDue = TRUE,
                                      !.downX = 0, !.downY = 0])
    /\ UNCHANGED <<ctxVars, spring, query>>

PointerCancel ==
    /\ drag.pressed
    /\ \E d \in (IF "pointercancel" \in drag.handlers
                 THEN onPointerUpLike(drag) ELSE {drag}) :
         /\ d.nextFrame <= MaxFrames + 1
         /\ drag' = Settled([d EXCEPT !.pressed = FALSE, !.downX = 0, !.downY = 0,
                                      !.tracked = FALSE, !.far = FALSE])
    /\ UNCHANGED <<ctxVars, spring, query>>

\* the pointer leaves the element with the button held
MouseLeave ==
    /\ drag.pressed
    /\ \E d \in (IF "mouseleave" \in drag.handlers
                 THEN onPointerUpLike(drag) ELSE {drag}) :
         /\ d.nextFrame <= MaxFrames + 1
         /\ drag' = Settled([d EXCEPT !.tracked = FALSE])
    /\ UNCHANGED <<ctxVars, spring, query>>

Click ==
    /\ drag.clickDue
    /\ \E r \in {IF "click" \in drag.handlers THEN onClickCapture(drag)
                 ELSE [d |-> drag, cancelled |-> FALSE]} :
         drag' = [r.d EXCEPT !.clickDue = FALSE, !.tracked = FALSE, !.far = FALSE,
                             !.click = [seen |-> TRUE, cancelled |-> r.cancelled,
                                        far |-> drag.far, tracked |-> drag.tracked]]
    /\ UNCHANGED <<ctxVars, spring, query>>

AnimationFrame(id) ==
    /\ id \in DOMAIN drag.frames
    /\ \E d \in inertiaStep(drag, id) :
         /\ d.nextFrame <= MaxFrames + 1
         /\ drag' = d
    /\ UNCHANGED <<ctxVars, spring, query>>

(***************************************************************************)
(* TriggerSpring (src/TriggerSpring/index.js).  The record spring holds    *)
(* the instance, the variable timeout_id of its debounced spring_push, the *)
(* timers of the browser and the scroll position of the container.  The    *)
(* delay of a timer is not measured: a pending timer fires when its delay  *)
(* has elapsed, and whatever happens before it fires happens before the    *)
(* delay elapses.  An intersectionRatio is written in percent.             *)
(***************************************************************************)
MaxTimers == 3        \* setTimeout calls
MaxCalls == 2         \* invocations of the callback

\* The page: the container shows clientWidth pixels of scrollWidth; elements
\* are placed by the offset of their left edge in the content.
Layout ==
    [clientWidth |-> 2, scrollWidth |-> 5,
     trigger |-> [left |-> 3, width |-> 1],
     other |-> [left |-> 1, width |-> 1]]

\* opts = { direction: 'left', offset: 0, delay: 500, ...opts }
SpringDefaults == [direction |-> "left", offset |-> 0, delay |-> 500]
\* The options objects of the callers: the documented options, with and
\* without the optional ones, and objects that also pass target.
DocumentedOptions ==
    {[container |-> "container", trigger |-> "trigger", callback |-> "callback"],
     [container |-> "container", trigger |-> "trigger", callback |-> "callback",
      direction |-> "right", offset |-> 1, delay |-> 200]}
SpringOptionSets ==
    DocumentedOptions
    \cup {[target |-> e] @@ o : o \in DocumentedOptions, e \in {"trigger", "other"}}

NoReport == [ratio |-> -1, isIntersecting |-> FALSE, called |-> FALSE,
             scheduled |-> FALSE]
NoSnap == [fired |-> FALSE, cause |-> -1, threw |-> FALSE, left |-> -1]

NoSpring ==
    [phase |-> "none",          \* "none", "active"
     documented |-> TRUE,       \* the options object had documented options only
     callback |-> "", container |-> "", scroll_target |-> "undefined",
     direction |-> "left", offset |-> 0, delay |-> 0, starting |-> FALSE,
     timeout_id |-> 0,          \* 0: undefined or null
     \* the browser: pending timers (identity -> ratio of the report whose
     \* spring_push() call set it), the container
     timers |-> [i \in {} |-> 0], nextTimer |-> 1, scrollLeft |-> 0,
     \* history: invocations of the callback, the last report and what
     \* #callbacks did with it, the last timer that fired
     calls |-> 0, report |-> NoReport, snap |-> NoSnap]

\* new TriggerSpring(opts) with a valid options object
springConstructor(s, options) ==
    LET opts == options @@ SpringDefaults IN
    [s EXCEPT !.phase = "active",
              !.documented = "target" \notin DOMAIN options,
              !.callback = opts.callback, !.container = opts.container,
              !.scroll_target = IF "target" \in DOMAIN opts THEN opts.target
                                ELSE "undefined",
              !.direction = opts.direction, !.offset = opts.offset,
              !.delay = opts.delay, !.starting = TRUE]

\* clearTimeout(id)
clearTimeout(s, id) == [s EXCEPT !.timers = [i \in DOMAIN @ \ {id} |-> @[i]]]

\* (variant: the debounced function does not clear the timer it set before)
debounced_fnKeepsTimer(s, cause) ==
    [s EXCEPT !.timers = (s.nextTimer :> cause) @@ @,
              !.timeout_id = s.nextTimer, !.nextTimer = @ + 1]

\* the function #debounce returns: this.spring_push(), called for a report
\* of ratio cause
debounced_fn(s, cause) ==
    [clearTimeout(s, s.timeout_id) EXCEPT
        !.timers = (s.nextTimer :> cause) @@ @,
        !.timeout_id = s.nextTimer, !.nextTimer = @ + 1]

\* this.spring_push.cancel()
cancel(s) == [clearTimeout(s, s.timeout_id) EXCEPT !.timeout_id = 0]

\* the position scrollTo is asked for when the target is the element e
target_scroll_left(s, e) ==
    LET relative_left == Layout[e].left
    IN IF s.direction = "left" THEN relative_left + s.offset
       ELSE relative_left - Layout.clientWidth + Layout[e].width + s.offset

\* container.scrollTo({ left }): the browser keeps the position in range
scrollTo(s, left) ==
    [s EXCEPT !.scrollLeft = IF left < 0 THEN 0
                             ELSE IF left > Layout.scrollWidth - Layout.clientWidth
                                  THEN Layout.scrollWidth - Layout.clientWidth
                                  ELSE left]

\* the function given to #debounce: this.scroll_target.getBoundingClientRect()
\* throws a TypeError when scroll_target is undefined
spring_push_body(s, cause) ==
    IF s.scroll_target = "undefined"
    THEN [s EXCEPT !.snap = [fired |-> TRUE, cause |-> cause, threw |-> TRUE,
                             left |-> -1]]
    ELSE LET left == target_scroll_left(s, s.scroll_target)
             to == IF left < 0 THEN 0 ELSE left
             s1 == scrollTo(s, to)
         IN [s1 EXCEPT !.snap = [fired |-> TRUE, cause |-> cause, threw |-> FALSE,
                                 left |-> s1.scrollLeft]]

\* #callbacks(entries), entries[0] having the given intersectionRatio and
\* isIntersecting
callbacks(s, ratio, isIntersecting) ==
    LET s0 == [s EXCEPT !.report = [ratio |-> ratio,
                                    isIntersecting |-> isIntersecting,
                                    called |-> FALSE, scheduled |-> FALSE]]
    IN IF (ratio < 100 /\ ratio # 0) \/ (s.starting /\ ratio = 100)
       THEN [debounced_fn(s0, ratio) EXCEPT !.starting = FALSE,
                                            !.report.scheduled = TRUE]
       ELSE IF ~isIntersecting THEN cancel(s0)
       ELSE IF ratio = 100
            THEN [cancel(s0) EXCEPT !.calls = @ + 1, !.report.called = TRUE]
            ELSE s0

\* The reports of the observer: thresholds 0, 0.05, 0.25, 0.5, 0.75 and 1; a
\* ratio above 0 comes with isIntersecting.
Ratios == {0, 50, 100}

ConstructSpring(options) ==
    /\ spring.phase = "none"
    /\ spring' = springConstructor(spring, options)
    /\ UNCHANGED <<ctxVars, drag, query>>

\* the observer calls #callbacks
Report(ratio, isIntersecting) ==
    /\ spring.phase = "active"
    /\ ratio > 0 => isIntersecting
    /\ spring.nextTimer <= MaxTimers
    /\ spring.calls < MaxCalls
    /\ spring' = callbacks(spring, ratio, isIntersecting)
    /\ UNCHANGED <<ctxVars, drag, query>>

\* a pending timer fires
Timer(id) ==
    /\ id \in DOMAIN spring.timers
    /\ spring' = spring_push_body(clearTimeout(spring, id), spring.timers[id])
    /\ UNCHANGED <<ctxVars, drag, query>>

\* the user scrolls the container
UserScroll(left) ==
    /\ spring.phase = "active"
    /\ left # spring.scrollLeft
    /\ spring' = [spring EXCEPT !.scrollLeft = left]
    /\ UNCHANGED <<ctxVars, drag, query>>

(***************************************************************************)
(* getCssValue (src/unnamed/part_000).  A string is a sequence of          *)
(* characters.  The variable query holds the arguments of one call and,    *)
(* once the call was made, what it returned: JsNull, a number              *)
(* [t |-> "number", v |-> n] or a string [t |-> "string", v |-> s].        *)
(***************************************************************************)
MaxLen == 5           \* characters of the css argument

\* The characters of the arguments: two property names (w, also written W,
\* and p, which is a unit as well), the punctuation of a declaration, the
\* space, two digits and the minus sign.
Chars == {"w", "W", "p", ":", ";", " ", "0", "3", "-"}
Digits == {"0", "3"}
DigitValue(c) == IF c = "3" THEN 3 ELSE 0
ToLower(c) == IF c = "W" THEN "w" ELSE c

JsNull == [t |-> "null", v |-> <<>>]
NaN == [t |-> "NaN", v |-> 0]
NoCall == [css |-> <<>>, property |-> <<>>, called |-> FALSE, ret |-> JsNull]

\* \s* from position j: the position after the spaces
RECURSIVE SkipSpaces(_, _)
SkipSpaces(s, j) ==
    IF j <= Len(s) /\ s[j] = " " THEN SkipSpaces(s, j + 1) ELSE j

\* [^;]* from position j: the position after the characters other than ;
RECURSIVE SkipValue(_, _)
SkipValue(s, j) ==
    IF j <= Len(s) /\ s[j] # ";" THEN SkipValue(s, j + 1) ELSE j

\* The regular expression `${property}\s*:\s*([^;]+)` with flag i, tried at
\* position i of css: [ok, group], group being the text of the capture group.
\* The quantifiers are greedy: the second \s* takes every space, and gives
\* the last one back to the group when nothing but ; or the end follows.
MatchAt(css, property, i) ==
    LET n == Len(property)
        name == /\ i + n - 1 <= Len(css)
                /\ \A k \in 1..n : ToLower(css[i + k - 1]) = ToLower(property[k])
        colon == SkipSpaces(css, i + n)
        first == SkipSpaces(css, colon + 1)
        from == IF first <= Len(css) /\ css[first] # ";" THEN first
                ELSE IF first > colon + 1 THEN first - 1
                ELSE 0
    IN IF name /\ colon <= Len(css) /\ css[colon] = ":" /\ from # 0
       THEN [ok |-> TRUE, group |-> SubSeq(css, from, SkipValue(css, from) - 1)]
       ELSE [ok |-> FALSE, group |-> <<>>]

\* css.match(regex): the leftmost match
Match(css, property) ==
    LET starts == {i \in 1..Len(css) : MatchAt(css, property, i).ok}
    IN IF starts = {} THEN [ok |-> FALSE, group |-> <<>>]
       ELSE MatchAt(css, property,
                    CHOOSE i \in starts : \A j \in starts : i <= j)

\* String.prototype.trim
RECURSIVE Trim(_)
Trim(s) ==
    IF s # <<>> /\ Head(s) = " " THEN Trim(Tail(s))
    ELSE IF s # <<>> /\ s[Len(s)] = " " THEN Trim(SubSeq(s, 1, Len(s) - 1))
    ELSE s

\* the value of a sequence of decimal digits
RECURSIVE Decimal(_)
Decimal(s) ==
    IF s = <<>> THEN 0
    ELSE 10 * Decimal(SubSeq(s, 1, Len(s) - 1)) + DigitValue(s[Len(s)])

\* Number(s) on the strings of the model: the empty string and the blank
\* strings are 0, an optional sign followed by decimal digits is its value,
\* every other string is NaN
Number(s) ==
    LET t == Trim(s)
        neg == t # <<>> /\ Head(t) = "-"
        digits == IF neg THEN Tail(t) ELSE t
    IN IF t = <<>> THEN [t |-> "number", v |-> 0]
       ELSE IF digits # <<>> /\ \A k \in 1..Len(digits) : digits[k] \in Digits
            THEN [t |-> "number", v |-> IF neg THEN 0 - Decimal(digits)
                                        ELSE Decimal(digits)]
            ELSE NaN

\* getCssValue(css, property)
getCssValue(css, property) ==
    LET match == Match(css, property) IN
    IF ~match.ok THEN JsNull
    ELSE LET num == Number(Trim(match.group)) IN
         IF num # NaN THEN num
         ELSE [t |-> "string", v |-> Trim(match.group)]

RECURSIVE Strings(_)
Strings(n) ==
    IF n = 0 THEN {<<>>}
    ELSE LET shorter == Strings(n - 1)
         IN shorter \cup {Append(s, c) : s \in {x \in shorter : Len(x) = n - 1},
                                         c \in Chars}

\* the call is made
GetCssValue ==
    /\ ~query.called
    /\ query' = [query EXCEPT !.called = TRUE,
                            !.ret = getCssValue(query.css, query.property)]
    /\ UNCHANGED <<ctxVars, drag, spring>>

Init ==
    /\ heap = <<>>
    /\ cache = <<>>
    /\ fields = <<>>
    /\ own = {}
    /\ listeners = <<>>
    /\ nextWrapper = 1
    /\ unsubs = {}
    /\ refs = {}
    /\ log = <<>>
    /\ last = NoLast
    /\ drag = NoDrag
    /\ spring = NoSpring
    /\ query = NoCall

(***************************************************************************)
(* Specifications.  SpecBus exercises the listener table and the dispatch  *)
(* loop with every kind of callback on the events of one property; Spec    *)
(* exercises the fields, the traps and the array methods.                  *)
(***************************************************************************)
BusEvents == {"a:c:change"}

NextBus ==
    \/ CreateReactiveFields(<<"a">>)
    \/ \E event \in BusEvents, cb \in Callbacks : On(event, cb)
    \/ \E event \in BusEvents, cb \in Callbacks : Once(event, cb)
    \/ \E event \in BusEvents, cb \in Callbacks : Off(event, cb)
    \/ \E closure \in unsubs : Unsubscribe(closure)
    \/ \E event \in BusEvents : RemoveAllListenersOf(event)
    \/ RemoveAllListeners
    \/ Write(<<"a">>, "c", [t |-> "prim", v |-> Num(2)])

SpecBus == Init /\ [][NextBus]_vars

ObjectEvents == {"a:change", "a:b:change", "a.b:c:change"}
ObjectPaths == {<<"a">>, <<"a", "b">>}

Next ==
    \/ CreateReactiveFields(<<"a">>)
    \/ FieldRead("a")
    \/ \E choice \in Assignable : FieldWrite("a", choice)
    \/ \E path \in ObjectPaths, prop \in {"b", "c", "_p"} : Read(path, prop)
    \/ \E choice \in Assignable : Write(<<"a">>, "b", choice)
    \/ \E path \in ObjectPaths, v \in Prims : Write(path, "c", [t |-> "prim", v |-> v])
    \/ \E event \in ObjectEvents : event \notin DOMAIN listeners /\ On(event, "nop")

Spec == Init /\ [][Next]_vars

ArrayEvents == {"items:change", "items:0:change", "items:length:read"}

NextArray ==
    \/ CreateReactiveFields(<<"items">>)
    \/ \E call \in MutatorCalls : Mutate(<<"items">>, call[1], call[2])
    \/ \E prop \in {"0", "1", "length"} : Read(<<"items">>, prop)
    \/ \E prop \in {"0", "1"}, v \in {Num(1), Num(2)} :
            /\ "items" \in DOMAIN fields
            /\ IndexOf(prop) <= Len(heap[heap[fields["items"].v].target].elems)
            /\ Write(<<"items">>, prop, [t |-> "prim", v |-> v])
    \/ \E event \in ArrayEvents : event \notin DOMAIN listeners /\ On(event, "nop")

SpecArray == Init /\ [][NextArray]_vars

RefEvents == {"a:c:change", "a.b:c:change"}
NewObject == [t |-> "literal", v |-> Ref(0)]

NextRef ==
    \/ CreateReactiveFields(<<"a">>)
    \/ FieldRead("a")
    \/ \E path \in ObjectPaths : Hold(path)
    \/ \E ref \in refs : Release(ref)
    \/ \E ref \in refs : WriteRef(ref, "c", [t |-> "prim", v |-> Num(2)])
    \/ FieldWrite("a", NewObject)
    \/ Write(<<"a">>, "b", NewObject)
    \/ \E path \in ObjectPaths : Write(path, "c", [t |-> "prim", v |-> Num(2)])
    \/ \E path \in ObjectPaths, prop \in {"b", "c"} : Read(path, prop)
    \/ \E event \in RefEvents : event \notin DOMAIN listeners /\ On(event, "nop")

SpecRef == Init /\ [][NextRef]_vars

FieldsDefinitions == {<<"a">>, <<"x">>, <<"x", "a">>}

NextFields ==
    \/ \E definitions \in FieldsDefinitions : CreateReactiveFields(definitions)
    \/ \E name \in OtherNames : DefineOwn(name)
    \/ \E name \in {"a", "x"} : FieldRead(name)
    \/ \E choice \in Assignable : FieldWrite("a", choice)
    \/ \E v \in Prims : Write(<<"a">>, "c", [t |-> "prim", v |-> v])
    \/ \E event \in {"a:change", "a:c:change"} : event \notin DOMAIN listeners /\ On(event, "nop")

SpecFields == Init /\ [][NextFields]_vars

IntroEvents == {"a:c:change", "a:change"}
IntroCallbacks == {"nop", "thrower"}

NextIntro ==
    \/ CreateReactiveFields(<<"a">>)
    \/ \E event \in IntroEvents, cb \in IntroCallbacks : On(event, cb)
    \/ \E cb \in IntroCallbacks : Once("a:c:change", cb)
    \/ \E event \in IntroEvents, cb \in IntroCallbacks : Off(event, cb)
    \/ \E closure \in unsubs : Unsubscribe(closure)
    \/ \E event \in IntroEvents \cup {""} : RemoveAllListenersOf(event)
    \/ RemoveAllListeners
    \/ Write(<<"a">>, "c", [t |-> "prim", v |-> Num(2)])
    \/ GetRegisteredEvents
    \/ \E event \in IntroEvents : GetListenerCount(event)
    \/ \E event \in IntroEvents : HasListeners(event)

SpecIntro == Init /\ [][NextIntro]_vars

KeysProps == {"c", "_p", "@@sym"}
KeysEvents == {"a:read", "a:change", "a:_p:read"}

NextKeys ==
    \/ CreateReactiveFields(<<"a">>)
    \/ \E prop \in KeysProps : Read(<<"a">>, prop)
    \/ \E prop \in KeysProps : Write(<<"a">>, prop, [t |-> "prim", v |-> Num(2)])
    \/ Write(<<"a">>, "@@sym", NewObject)
    \/ \E prop \in KeysProps \cup {"b"} : Delete(<<"a">>, prop)
    \/ \E event \in KeysEvents : event \notin DOMAIN listeners /\ On(event, "nop")

SpecKeys == Init /\ [][NextKeys]_vars

AliasPaths == {<<"s", "b">>, <<"s", "d">>}
AliasEvents == {"s.b:c:change", "s.d:c:change", "s.d:c:read"}

NextAlias ==
    \/ CreateReactiveFields(<<"s">>)
    \/ \E prop \in {"b", "d"} : Read(<<"s">>, prop)
    \/ \E path \in AliasPaths : Read(path, "c")
    \/ \E path \in AliasPaths, v \in {Num(1), Num(2)} : Write(path, "c", [t |-> "prim", v |-> v])
    \/ \E event \in AliasEvents : event \notin DOMAIN listeners /\ On(event, "nop")

SpecAlias == Init /\ [][NextAlias]_vars

PayloadEvents == {"a:c:change", "a:change"}
PayloadCallbacks == {"nop", "mutator"}

NextPayload ==
    \/ CreateReactiveFields(<<"a">>)
    \/ \E event \in PayloadEvents, cb \in PayloadCallbacks : On(event, cb)
    \/ \E event \in PayloadEvents, cb \in PayloadCallbacks : Off(event, cb)
    \/ \E v \in {Num(1), Num(2)} : Write(<<"a">>, "c", [t |-> "prim", v |-> v])

SpecPayload == Init /\ [][NextPayload]_vars

\* SpecLoop: callbacks that return and that register listeners, themselves
\* included, for the event being dispatched; none reads or writes a field.
LoopEvents == {"a:c:change"}
LoopCallbacks == {"nop", "adder", "again"}

NextLoop ==
    \/ CreateReactiveFields(<<"a">>)
    \/ \E event \in LoopEvents, cb \in LoopCallbacks : On(event, cb)
    \/ \E event \in LoopEvents, cb \in LoopCallbacks : Off(event, cb)
    \/ Write(<<"a">>, "c", [t |-> "prim", v |-> Num(2)])

SpecLoop == Init /\ [][NextLoop]_vars

\* SpecChain: a listener of a:c:change that writes a.c during the dispatch,
\* and listeners of a:change.
ChainEvents == {"a:c:change", "a:change"}
ChainCallbacks == {"nop", "writer"}

NextChain ==
    \/ CreateReactiveFields(<<"a">>)
    \/ \E event \in ChainEvents, cb \in ChainCallbacks : On(event, cb)
    \/ \E event \in ChainEvents, cb \in ChainCallbacks : Off(event, cb)
    \/ \E v \in Prims : Write(<<"a">>, "c", [t |-> "prim", v |-> v])

SpecChain == Init /\ [][NextChain]_vars

\* SpecPartial: calls of createReactiveFields with a name that collides
\* between a name that is free and another name, and the use of the fields.
PartialDefinitions == {<<"a">>, <<"x", "a", "s">>}

NextPartial ==
    \/ \E definitions \in PartialDefinitions : CreateReactiveFields(definitions)
    \/ \E name \in {"a", "x", "s"} : FieldRead(name)
    \/ \E name \in {"a", "x"}, v \in Prims : FieldWrite(name, [t |-> "prim", v |-> v])
    \/ \E name \in {"a", "x"}, v \in Prims : Write(<<name>>, "c", [t |-> "prim", v |-> v])
    \/ \E event \in {"x:change", "x:c:change"} : event \notin DOMAIN listeners /\ On(event, "nop")

SpecPartial == Init /\ [][NextPartial]_vars

\* SpecResult: the caller keeps object and array values it obtained through
\* the fields, by reading a property or from a mutating method of an array,
\* and writes through them.
ResultCalls == {call \in MutatorCalls : call[1] \in {"push", "sort", "reverse", "fill", "pop"}}

NextResult ==
    \/ \E name \in {"items", "a"} : CreateReactiveFields(<<name>>)
    \/ \E call \in ResultCalls : Mutate(<<"items">>, call[1], call[2])
    \/ \E call \in ResultCalls : MutateKeep(<<"items">>, call[1], call[2])
    \/ Read(<<"a">>, "b")
    \/ Hold(<<"a", "b">>)
    \/ \E ref \in refs, prop \in {"0", "c"}, v \in {Num(1), Num(2)} :
          /\ (IsIndex(prop) <=> IsArray(heap, ref.v))
          /\ WriteRef(ref, prop, [t |-> "prim", v |-> v])
    \/ \E ref \in refs : Release(ref)

SpecResult == Init /\ [][NextResult]_vars

\* SpecWrap: the caller assigns reactive nodes to fields (ctx.a = ctx.a,
\* ctx.a = ctx.x) and then writes and reads through the fields.
WrapFields == {"a", "x"}

NextWrap ==
    \/ \E name \in WrapFields : CreateReactiveFields(<<name>>)
    \/ \E name \in WrapFields, from \in WrapFields :
          /\ from \in DOMAIN fields
          /\ FieldWrite(name, FieldValue(from))
    \/ \E name \in WrapFields, v \in Prims : Write(<<name>>, "c", [t |-> "prim", v |-> v])
    \/ \E name \in WrapFields : Read(<<name>>, "c")

SpecWrap == Init /\ [][NextWrap]_vars

\* SpecDrag: a page that styles an element, constructs a DragToScrollOnPC on
\* it, drags, clicks and destroys the instance.
NextDrag ==
    \/ \E style \in PageStyles : PageStyle(style)
    \/ \E options \in OptionSets, coarse \in BOOLEAN : Construct(options, coarse)
    \/ \E x \in 0..MaxCoord, y \in Ys, ignored \in BOOLEAN :
         PointerDown(x, y, ignored)
    \/ \E x \in 0..MaxCoord, y \in Ys : PointerMove(x, y)
    \/ PointerUp
    \/ PointerCancel
    \/ MouseLeave
    \/ Click
    \/ \E id \in 1..MaxFrames : AnimationFrame(id)
    \/ Tick
    \/ Destroy

SpecDrag == Init /\ [][NextDrag]_vars

\* SpecSpring: a page that constructs a TriggerSpring, the reports of its
\* observer, its timers and the user's scrolling.
NextSpring ==
    \/ \E options \in SpringOptionSets : ConstructSpring(options)
    \/ \E ratio \in Ratios, isIntersecting \in BOOLEAN : Report(ratio, isIntersecting)
    \/ \E id \in 1..MaxTimers : Timer(id)
    \/ \E left \in 0..(Layout.scrollWidth - Layout.clientWidth) : UserScroll(left)

SpecSpring == Init /\ [][NextSpring]_vars

\* SpecCss: one call of getCssValue, for every css argument of MaxLen
\* characters or fewer and the property names w and p.
InitCss ==
    /\ heap = <<>>
    /\ cache = <<>>
    /\ fields = <<>>
    /\ own = {}
    /\ listeners = <<>>
    /\ nextWrapper = 1
    /\ unsubs = {}
    /\ refs = {}
    /\ log = <<>>
    /\ last = NoLast
    /\ drag = NoDrag
    /\ spring = NoSpring
    /\ query \in {[NoCall EXCEPT !.css = css, !.property = property] :
                    css \in Strings(MaxLen), property \in {<<"w">>, <<"p">>}}

NextCss == GetCssValue

SpecCss == InitCss /\ [][NextCss]_vars

(***************************************************************************)
(* Reading the trace of the last operation.                                *)
(***************************************************************************)
Steps(kinds, depth) == SelectSeq(log, LAMBDA s : s.k \in kinds /\ s.d = depth)
Emits == {i \in 1..Len(log) : log[i].k = "emit"}
\* the positions in log of the calls made by the dispatch that log[i] started
CallsOf(i) == {j \in 1..Len(log) : log[j].k = "call" /\ log[j].n = i}
Invocations(i, entry) == Cardinality({j \in CallsOf(i) : log[j].entry = entry})
Occurrences(arr, entry) == Cardinality({p \in 1..Len(arr) : arr[p] = entry})
\* the functions called by the dispatch that log[i] started, in call order
Called(i) == LET calls == SelectSeq([j \in 1..Len(log) |-> [log[j] EXCEPT !.obj = j]],
                                    LAMBDA s : s.k = "call" /\ s.n = i)
             IN [p \in 1..Len(calls) |-> calls[p].entry]
\* a listener of the dispatch that log[i] started changed a listener array
Modified(i) == \E j \in 1..Len(log) : log[j].k \in {"push", "splice"} /\ log[j].n = i
Thrown(i) == \E j \in 1..Len(log) : log[j].k = "error" /\ log[j].n = i
ListOf(L, event) == IF event \in DOMAIN L THEN L[event] ELSE <<>>
ProxyTargetsRaw ==
    \A i \in 1..Len(heap) :
        heap[i].kind = "proxy" => heap[heap[i].target].kind \in {"object", "array"}
\* the raw target that the last read, write or method call reached
LastTarget == heap[last.node].target

\* C1: when a listener of an event with two or more listeners throws during a
\* dispatch, every listener registered for the event is still invoked, the
\* exception does not reach the caller, and a write stays applied.
C1_ListenerIsolation ==
    \A i \in Emits :
        (Len(log[i].snap) >= 2 /\ Thrown(i)) =>
            /\ \A p \in 1..Len(log[i].snap) : Invocations(i, log[i].snap[p]) >= 1
            /\ ~last.threw
            /\ last.op = "write" => RawGet(heap, LastTarget, last.prop) = last.value

\* C2: every listener registered for the event when a dispatch starts is
\* invoked exactly once by that dispatch, also when listeners are removed
\* while it runs.
C2_SnapshotInvokedOnce ==
    \A i \in Emits : \A p \in 1..Len(log[i].snap) :
        Invocations(i, log[i].snap[p]) = Occurrences(log[i].snap, log[i].snap[p])

\* C3: a listener registered for the event by a listener of the running
\* dispatch is not invoked by that dispatch.
C3_AddedNotInvoked ==
    \A i \in Emits : \A j \in 1..Len(log) :
        (log[j].k = "push" /\ log[j].n = i /\ log[j].ev = log[i].ev) =>
            Invocations(i, log[j].entry) <= Occurrences(log[i].snap, log[j].entry)

\* C4: a dispatch in which no listener changes the listener list invokes the
\* listeners of the event in registration order, each exactly once, each with
\* the payload of the emission and the host instance; on and once register at
\* the end of the list of their event and leave the rest of the table as it was.
C4_Dispatch ==
    \A i \in Emits : ~Modified(i) =>
        /\ Called(i) = log[i].snap
        /\ \A j \in CallsOf(i) : log[j].pl = log[i].pl /\ log[j].ctx = Host /\ log[j].ev = log[i].ev
C4_Registration ==
    last'.op \in {"on", "once"} =>
        /\ ListOf(listeners', last'.ev) = Append(ListOf(listeners, last'.ev), last'.entry)
        /\ \A e \in DOMAIN listeners' \ {last'.ev} :
                e \in DOMAIN listeners /\ listeners'[e] = listeners[e]
C4_RegistrationOrder == [](C4_Dispatch) /\ [][C4_Registration]_vars
C4_Witness ==
    \E i \in Emits :
        /\ Len(log[i].snap) >= 2 /\ log[i].snap[1] # log[i].snap[2]
        /\ ~Modified(i)
        /\ Cardinality(CallsOf(i)) >= 2

\* C5: the wrapper registered by once is invoked by the first emission of its
\* event after the registration and is not registered any more after that
\* invocation, whether its callback returns or throws.
C5_OnceRunsOnce ==
    \A i \in Emits : \A p \in 1..Len(log[i].snap) :
        log[i].snap[p].w > 0 =>
            /\ Invocations(i, log[i].snap[p]) = 1
            /\ Occurrences(ListOf(listeners, log[i].ev), log[i].snap[p]) = 0

\* C6: once(E, cb) adds one registration to E that is not a registration of
\* cb or of any other callback, off(E, cb) with the original callback leaves
\* every once registration where it is, the closure returned by once removes
\* its registration, a wrapper that is not registered is never invoked, and a registered one is
\* invoked by the next emission of E unless a listener that runs before it in
\* that dispatch has removed a listener.
IsWrapper(entry) == entry.w > 0
C6_Step ==
    /\ last'.op = "once" =>
            /\ Len(ListOf(listeners', last'.ev)) = Len(ListOf(listeners, last'.ev)) + 1
            /\ \A cb \in Callbacks \cup {"late"} :
                    Occurrences(ListOf(listeners', last'.ev), Plain(cb))
                        = Occurrences(ListOf(listeners, last'.ev), Plain(cb))
    /\ last'.op = "off" =>
            \A e \in DOMAIN listeners :
                /\ e \in DOMAIN listeners'
                /\ SelectSeq(listeners'[e], IsWrapper) = SelectSeq(listeners[e], IsWrapper)
    /\ (last'.op = "unsubscribe" /\ IsWrapper(last'.entry)) =>
            Occurrences(ListOf(listeners', last'.ev), last'.entry) = 0
    /\ \A j \in 1..Len(log') :
            (log'[j].k = "call" /\ IsWrapper(log'[j].entry)) =>
                Occurrences(ListOf(listeners, log'[j].ev), log'[j].entry) = 1
    /\ \A i \in 1..Len(log') : \A p \in 1..Len(log'[i].snap) :
            (log'[i].k = "emit" /\ IsWrapper(log'[i].snap[p])) =>
                \/ \E j \in 1..Len(log') :
                        /\ log'[j].k = "call" /\ log'[j].n = i /\ log'[j].entry = log'[i].snap[p]
                        /\ log'[j].pl = log'[i].pl
                \/ \E j \in 1..Len(log') : log'[j].k = "splice" /\ log'[j].n = i
C7_WitnessNewProperty ==
    /\ last.op = "write"
    /\ last.old = Undef

C9_Emission ==
    last.op = "mutate" =>
        LET steps == Steps({"assign", "emit", "warn", "store", "apply"}, 0)
        IN /\ Len(steps) = 2
           /\ steps[1].k = "apply" /\ steps[1].obj = LastTarget /\ steps[1].ev = last.prop
           /\ steps[2].k = "emit" /\ steps[2].ev = last.ns \o ":change"
           /\ steps[2].pl = MutationPayload(last.prop, last.args, Len(heap[LastTarget].elems))
           /\ Emits = {2}
           /\ ~last.threw
C9_Applied ==
    last'.op = "mutate" =>
        LET target == heap'[last'.node].target
            before == heap[target].elems
            after == heap'[target].elems
            args == last'.args
        IN /\ after = ArrayApply(before, last'.prop, args).elems
           /\ last'.prop \in {"push", "unshift"} => Len(after) = Len(before) + Len(args)
           /\ (last'.prop \in {"pop", "shift"} /\ before # <<>>) => Len(after) = Len(before) - 1
           /\ last'.prop \in {"sort", "reverse", "fill", "copyWithin"} => Len(after) = Len(before)
           /\ last'.prop = "push" => SubSeq(after, 1, Len(before)) = before
           /\ last'.prop = "reverse" =>
                \A i \in 1..Len(before) : after[i] = before[Len(before) + 1 - i]
           /\ last'.prop = "sort" =>
                \A i \in 1..(Len(after) - 1) : after[i].v <= after[i + 1].v
C10_NestedWriteLocal ==
    (last.op = "write" /\ last.path = <<"a", "b">>) =>
        /\ last.ns = "a.b"
        /\ \A j \in 1..Len(log) :
                log[j].k \in {"emit", "call"} =>
                    log[j].ev \in {"a.b:" \o last.prop \o ":change", "a.b:change"}
        /\ \A i \in Emits : Called(i) = log[i].snap
C10_Witness ==
    /\ last.op = "write" /\ last.path = <<"a", "b">> /\ last.prop = "c"
    /\ ListOf(listeners, "a:change") # <<>>
    /\ ListOf(listeners, "a:b:change") # <<>>
    /\ \E j \in 1..Len(log) : log[j].k = "call" /\ log[j].ev = "a.b:c:change"

\* C11: a read that returns an object or array returns the reactive node that
\* the raw value already had when it had one, a raw object that stays alive
\* keeps its node from step to step, reading a field returns the stored node,
\* and in every state a raw object is the target of at most one reactive node,
\* the one #proxy_cache records for it.
Nodes == {i \in 1..Len(heap) : heap[i].kind = "proxy"}
C11_OneNode ==
    /\ \A i \in Nodes : \A j \in Nodes : heap[i].target = heap[j].target => i = j
    /\ \A i \in Nodes : cache[heap[i].target] = i
C11_Stable ==
    /\ (last'.op \in {"read", "hold"} /\ IsObjectValue(last'.ret)) =>
            LET raw == heap'[last'.ret.v].target
            IN (raw <= Len(cache) /\ cache[raw] # 0) => last'.ret.v = cache[raw]
    /\ last'.op = "fieldRead" => (last'.ret = fields[last'.path[1]] /\ fields' = fields)
    /\ \A i \in 1..Len(cache) :
            (cache[i] # 0 /\ heap'[i].kind # "collected") => cache'[i] = cache[i]
C11_IdentityStable == [](C11_OneNode) /\ [][C11_Stable]_vars
C11_Witness ==
    /\ last.op = "read" /\ last.path = <<"a">> /\ last.prop = "b"
    /\ IsObjectValue(last.ret)
    /\ last.ret \in refs

\* the raw object that ctx holds under the namespace ns ("a" or "a.b"), if any
RawAt(ns) ==
    IF "a" \notin DOMAIN fields \/ ~IsObjectValue(fields["a"]) THEN Undef
    ELSE IF ns = "a" THEN Ref(heap[fields["a"].v].target)
    ELSE RawGet(heap, heap[fields["a"].v].target, "b")

\* C13: when the field or property of a namespace holds a new object, a
\* write through a node of the object it held before invokes no listener.
C13_OldReferenceInert ==
    (/\ last.op = "writeRef"
     /\ IsObjectValue(RawAt(last.ns))
     /\ RawAt(last.ns).v # heap[last.node].target) =>
        \A j \in 1..Len(log) : log[j].k # "call"

\* C14: the write ctx.a.b.c = v that follows the reassignment of a.b to a new
\* object emits no event.
C14_Step ==
    (/\ last.op = "write" /\ last.path = <<"a">> /\ last.prop = "b"
     /\ IsObjectValue(last.old) /\ IsObjectValue(last.value)
     /\ last'.op = "write" /\ last'.path = <<"a", "b">>) =>
        \A j \in 1..Len(log') : log'[j].k # "emit"
C14_NewObjectNotReactive == [][C14_Step]_vars

\* C12: a property write or field assignment whose previous value is an
\* object or array logs the reassignment warning exactly once, before the
\* value is assigned and before any event, and emits the change events of the
\* write (two for a property, one for a field); a write whose previous value
\* is a number, null or undefined logs no warning.
Positions(kinds) == {j \in 1..Len(log) : log[j].k \in kinds /\ log[j].d = 0}
C15_FieldAccess ==
    /\ last.op = "fieldRead" => (log = <<>> /\ last.ret = fields[last.path[1]])
    /\ last.op = "fieldWrite" =>
            LET name == last.path[1]
                emits == SelectSeq(log, LAMBDA step : step.k = "emit")
            IN /\ Len(emits) = 1
               /\ emits[1].ev = name \o ":change"
               /\ emits[1].pl = ChangePayload(name, last.old, last.value)
               /\ IF IsObjectValue(last.value)
                  THEN /\ IsObjectValue(fields[name])
                       /\ heap[fields[name].v].kind = "proxy"
                       /\ heap[fields[name].v].target = last.value.v
                       /\ heap[fields[name].v].ns = name
                  ELSE fields[name] = last.value
               /\ ~last.threw
C15_Witness ==
    /\ last.op = "fieldWrite"
    /\ IsObjectValue(last.value) /\ IsObjectValue(last.old)
    /\ \E j \in 1..Len(log) : log[j].k = "call" /\ log[j].ev = "a:change"

\* C16: createReactiveFields throws exactly when one of the names it is given
\* is an own property of the host, declared by an earlier call or defined in
\* any other way; a name that collides keeps its stored value (or stays
\* undeclared), the objects that exist are not changed and the listener table
\* is not changed.
C16_Step ==
    last'.op = "createReactiveFields" =>
        LET definitions == last'.path
            colliding == {definitions[i] : i \in {i \in 1..Len(definitions) : definitions[i] \in own}}
        IN /\ last'.threw <=> colliding # {}
           /\ \A name \in colliding :
                /\ name \in own'
                /\ IF name \in DOMAIN fields
                   THEN name \in DOMAIN fields' /\ fields'[name] = fields[name]
                   ELSE name \notin DOMAIN fields'
           /\ \A i \in 1..Len(heap) : heap'[i] = heap[i]
           /\ listeners' = listeners
C16_NamingCollision == [][C16_Step]_vars
C16_Witness ==
    /\ last.op = "createReactiveFields" /\ last.threw
    /\ last.path = <<"x", "a">>
    /\ "x" \in own /\ "x" \notin DOMAIN fields
    /\ ListOf(listeners, "a:change") # <<>>

C18_RegisteredEvents ==
    last.op = "getRegisteredEvents" =>
        last.events = {e \in IntroEvents : ListOf(listeners, e) # <<>>}

\* C19: on and once add one registration to their event; off and a closure
\* remove one when the function is registered and none otherwise;
\* removeAllListeners leaves none for its event (for every event without an
\* argument); a write removes as many as its once wrappers removed;
\* getListenerCount(E) returns the number of registrations of E, hasListeners(E)
\* is true exactly when that number is positive, and the three introspection
\* calls change neither the listener table nor the fields nor any object.
Registered(L, event) == Len(ListOf(L, event))
C19_Step ==
    /\ last'.op \in {"on", "once"} =>
            Registered(listeners', last'.ev) = Registered(listeners, last'.ev) + 1
    /\ last'.op \in {"off", "unsubscribe"} =>
            Registered(listeners', last'.ev) =
                Registered(listeners, last'.ev)
                    - (IF Occurrences(ListOf(listeners, last'.ev), last'.entry) > 0 THEN 1 ELSE 0)
    /\ last'.op = "removeAllListeners" =>
            \A e \in IntroEvents : (last'.ev \in {"", e}) => Registered(listeners', e) = 0
    /\ last'.op = "write" =>
            \A e \in IntroEvents :
                Registered(listeners', e) =
                    Registered(listeners, e)
                        - Cardinality({j \in 1..Len(log') : log'[j].k = "splice" /\ log'[j].ev = e})
    /\ last'.op = "getListenerCount" => last'.count = Registered(listeners', last'.ev)
    /\ last'.op = "hasListeners" => (last'.has <=> Registered(listeners', last'.ev) > 0)
    /\ last'.op \in {"getRegisteredEvents", "getListenerCount", "hasListeners"} =>
            /\ listeners' = listeners /\ fields' = fields /\ heap' = heap /\ cache' = cache
            /\ own' = own /\ log' = <<>>
C19_ListenerCount == [][C19_Step]_vars
C19_Witness ==
    /\ last.op = "hasListeners" /\ ~last.has
    /\ last.ev \in DOMAIN listeners
    /\ \E e \in IntroEvents : Registered(listeners, e) >= 2

\* C20: off(E, cb), and the closure returned by on(E, cb), remove the
\* earliest registration of cb for E and nothing else when cb is registered
\* for E, and change nothing otherwise; the arrays of the other events and
\* the set of events that have an array stay as they were, and the call
\* does not throw.
C20_Step ==
    (last'.op \in {"off", "unsubscribe"} /\ ~IsWrapper(last'.entry)) =>
        LET before == ListOf(listeners, last'.ev)
            after == ListOf(listeners', last'.ev)
            positions == {p \in 1..Len(before) : before[p] = last'.entry}
        IN /\ IF positions = {}
              THEN listeners' = listeners
              ELSE LET first == CHOOSE p \in positions : \A q \in positions : p <= q
                   IN after = SubSeq(before, 1, first - 1) \o SubSeq(before, first + 1, Len(before))
           /\ DOMAIN listeners' = DOMAIN listeners
           /\ \A e \in DOMAIN listeners \ {last'.ev} : listeners'[e] = listeners[e]
           /\ ~last'.threw
C20_OffRemovesFirst == [][C20_Step]_vars
C20_Witness ==
    /\ last.op = "off"
    /\ Occurrences(ListOf(listeners, last.ev), last.entry) >= 1
    /\ Registered(listeners, last.ev) >= 2
    /\ \E j \in 1..Len(log) : log[j].k = "splice"

\* C21: removeAllListeners(E) with an event name E leaves E without listeners
\* and the listeners of every other event as they were; removeAllListeners()
\* leaves every event without listeners; an emission that follows invokes no
\* listener of an event that was cleared.
C21_Step ==
    /\ last'.op = "removeAllListeners" =>
            IF last'.path # <<>>
            THEN /\ ListOf(listeners', last'.path[1]) = <<>>
                 /\ \A e \in DOMAIN listeners \ {last'.path[1]} :
                        e \in DOMAIN listeners' /\ listeners'[e] = listeners[e]
            ELSE \A e \in DOMAIN listeners' : listeners'[e] = <<>>
    /\ (last.op = "removeAllListeners" /\ last'.op = "write") =>
            \A j \in 1..Len(log') :
                log'[j].k = "call" => (last.path # <<>> /\ log'[j].ev # last.path[1])
C21_RemoveAllListeners == [][C21_Step]_vars

\* C22: a read or a write with a symbol key and a property deletion, on a
\* reactive node, do not throw and emit no event; the read returns the raw
\* value, the write stores the value and the deletion removes the property.
C22_PassThrough ==
    ((last.op \in {"read", "write"} /\ ~IsStringKey(last.prop)) \/ last.op = "delete") =>
        /\ ~last.threw
        /\ \A j \in 1..Len(log) : log[j].k # "emit"
        /\ last.op = "write" => RawGet(heap, LastTarget, last.prop) = last.value
        /\ last.op = "delete" => RawGet(heap, LastTarget, last.prop) = Undef

\* C23: a read of a property that holds a primitive, under a key that starts
\* with an underscore or is a symbol, emits no event, invokes no listener and
\* returns the raw value.
C23_SilentKeys ==
    (/\ last.op = "read"
     /\ last.prop \in {"_p", "@@sym"}
     /\ ~IsObjectValue(last.old)) =>
        /\ log = <<>>
        /\ last.ret = last.old
        /\ ~last.threw
C23_Witness ==
    /\ last.op = "read" /\ last.prop = "_p" /\ last.ret = Num(2)
    /\ ListOf(listeners, "a:read") # <<>>
    /\ ListOf(listeners, "a:_p:read") # <<>>

RECURSIVE DotJoined(_)
DotJoined(path) ==
    IF Len(path) = 1 THEN path[1]
    ELSE DotJoined(SubSeq(path, 1, Len(path) - 1)) \o "." \o path[Len(path)]
C25_NamespaceIsPath ==
    last.op \in {"read", "write"} =>
        \A j \in 1..Len(log) :
            log[j].k = "emit" =>
                log[j].ev \in {DotJoined(last.path) \o ":" \o last.prop \o ":read",
                               DotJoined(last.path) \o ":read",
                               DotJoined(last.path) \o ":" \o last.prop \o ":change",
                               DotJoined(last.path) \o ":change"}

\* C26: every listener invoked for an emission of a write is given the
\* payload of the write (prop, the previous value, the value written),
\* whatever the listeners invoked before it did to the payload they were
\* given, for both events of the write.
C26_PayloadFresh ==
    last.op = "write" =>
        \A j \in 1..Len(log) :
            log[j].k = "call" => log[j].pl = ChangePayload(last.prop, last.old, last.value)

\* C27: with cancelClickOnDrag, the click that follows the pointerup of a
\* gesture is cancelled (preventDefault and stopPropagation are called on it)
\* when the pointer went farther than dragThresholdPx from where it was
\* pressed, and is not cancelled when it stayed within the threshold.
C27_ClickCancelledAfterDrag ==
    (/\ drag.phase = "active" /\ ~drag.noop /\ drag.opts.cancelClickOnDrag
     /\ drag.click.seen /\ drag.click.tracked)
    => (drag.click.cancelled <=> drag.click.far)

\* C28: after destroy(), whether it was called with no gesture in progress,
\* during a drag or during an inertia animation, the cursor, user-select,
\* touch-action and scrollbar styles of the element are what they were before
\* the instance was constructed, no handler of the instance is attached and
\* no animation frame is pending; and this stays so.
C28_DestroyRestores ==
    drag.phase = "destroyed"
    => /\ drag.style = drag.before
       /\ drag.handlers = {}
       /\ DOMAIN drag.frames = {}
       /\ HideClass \notin drag.classList

\* destroy() was called during a drag that started while the inertia of the
\* previous one was running, on an element the page had styled
C28_Witness ==
    /\ drag.phase = "destroyed" /\ ~drag.noop
    /\ drag.at.down /\ drag.at.frame
    /\ drag.before # PlainStyle
    /\ drag.opts.setCursors /\ drag.opts.hideScrollbars

\* C29: a report of the observer with intersectionRatio 1 executes the
\* callback, leaves no snap pending and schedules none.
C29_FullVisibility ==
    spring.report.ratio = 100
    => /\ spring.report.called
       /\ ~spring.report.scheduled
       /\ DOMAIN spring.timers = {}

\* C30: an instance constructed with the documented options only, whose snap
\* timer was set by a report of partial visibility and has fired, scrolled
\* the container to the position that reveals the trigger: its left edge, or
\* its right edge, plus offset.
C30_SnapReveals ==
    (spring.documented /\ spring.snap.fired /\ spring.snap.cause \in 1..99)
    => /\ ~spring.snap.threw
       /\ spring.snap.left
            = scrollTo(spring, target_scroll_left(spring, "trigger")).scrollLeft

\* C31: while the last report of the observer is one of a trigger that does
\* not intersect, no snap is pending, and a snap becomes pending again only
\* by a report of partial visibility.
C31_Step ==
    (spring.report.ratio # -1 /\ ~spring.report.isIntersecting)
    => /\ DOMAIN spring.timers = {}
       /\ DOMAIN spring'.timers # {} => spring'.report.ratio \in 1..99
C31_HiddenCancelsSnap == [][C31_Step]_vars

\* C39: while a drag gesture is in progress (isDown, from an accepted
\* pointerdown to the next pointerup, pointercancel or mouseleave) no
\* animation frame of an inertia is pending.
C39_NoInertiaDuringDrag ==
    (drag.phase = "active" /\ drag.isDown) => DOMAIN drag.frames = {}

\* C40: at most one snap timer is pending, and it is the timer set by the
\* last spring_push() call: the timers of the reports before it were cleared.
C40_OneSnapTimer ==
    /\ Cardinality(DOMAIN spring.timers) <= 1
    /\ DOMAIN spring.timers \subseteq {spring.timeout_id}
    /\ DOMAIN spring.timers \subseteq {spring.nextTimer - 1}

\* two reports of partial visibility arrived before any timer fired, and the
\* timer of the second is pending
C40_Witness ==
    /\ spring.nextTimer = 3 /\ ~spring.snap.fired
    /\ spring.report.ratio \in 1..99 /\ spring.report.scheduled
    /\ DOMAIN spring.timers = {2}

\* The declared value of a call: the trimmed text of the declaration, split
\* into the number it starts with and the unit that follows.
DeclaredValue == Trim(Match(query.css, query.property).group)
RECURSIVE NumberEnd(_, _)
NumberEnd(s, j) == IF j <= Len(s) /\ s[j] \in Digits THEN NumberEnd(s, j + 1) ELSE j
NumberPart(s) ==
    SubSeq(s, 1, NumberEnd(s, IF s # <<>> /\ s[1] = "-" THEN 2 ELSE 1) - 1)
UnitPart(s) == SubSeq(s, Len(NumberPart(s)) + 1, Len(s))
IsNumberWithUnit(s) ==
    /\ NumberPart(s) \notin {<<>>, <<"-">>}
    /\ \A k \in 1..Len(UnitPart(s)) : UnitPart(s)[k] \in {"p", "w", "W"}

\* C32: getCssValue returns null when the property has no declaration, the
\* number when the declared value is a number or a number followed by a unit
\* (the unit is stripped), and the trimmed string when the declared value is
\* any other text.
C32_GetCssValue ==
    query.called =>
        IF ~Match(query.css, query.property).ok THEN query.ret = JsNull
        ELSE IF IsNumberWithUnit(DeclaredValue)
             THEN query.ret = Number(NumberPart(DeclaredValue))
             ELSE DeclaredValue # <<>>
                  => query.ret = [t |-> "string", v |-> DeclaredValue]

\* C33: when every callback returns and none reads or writes a field of the
\* host, every dispatch terminates: the operation that started it returns.
C33_DispatchTerminates == ~Hangs(log)

\* the payloads an operation delivered to the listener nop of a:change for
\* the property c, in delivery order (a listener registered more than once
\* counts once for each dispatch)
Delivered ==
    LET first == {j \in 1..Len(log) :
                    /\ log[j].k = "call" /\ log[j].ev = "a:change"
                    /\ log[j].entry = Plain("nop") /\ log[j].pl.prop = "c"
                    /\ \A i \in 1..(j - 1) :
                          ~(log[i].k = "call" /\ log[i].n = log[j].n
                            /\ log[i].entry = Plain("nop"))}
        calls == SelectSeq([j \in 1..Len(log) |-> [log[j] EXCEPT !.obj = j]],
                           LAMBDA s : s.obj \in first)
    IN [p \in 1..Len(calls) |-> calls[p].pl]

\* C34: the change payloads delivered to a listener of a:change for one
\* property form a chain: the old_value of each is the new_value of the one
\* delivered before it.
C34_PayloadChain ==
    \A p \in 1..(Len(Delivered) - 1) :
        Delivered[p + 1].old_value = Delivered[p].new_value
\* C35: when every value assigned to a field is a reactive node (ctx.a = ctx.a,
\* ctx.a = ctx.x), a single write through a field emits exactly two events,
\* both change events, and no read event.
C35_WrappingIdempotent ==
    (last.op = "write" /\ ~last.threw) =>
        LET events == SelectSeq(log, LAMBDA s : s.k = "emit")
        IN /\ Len(events) = 2
           /\ \A i \in 1..Len(events) : events[i].pl.shape = "change"
\* C38: invoking the closure returned by on(E, cb) a second time has no
\* effect: the listeners stay as the first invocation left them, also when
\* cb was registered for E more than once.
C38_Step ==
    (/\ last.op = "unsubscribe"
     /\ last'.op = "unsubscribe"
     /\ last'.ev = last.ev
     /\ last'.entry = last.entry) => listeners' = listeners
C38_SecondInvocationInert == [][C38_Step]_vars
\* C36: every object or array value the caller obtains through a field, by
\* reading a property or as the value returned by a mutating method of an
\* array, is a reactive node, and a write through a value so obtained emits
\* a change event.
C36_ResultsReactive ==
    /\ (last.op \in {"read", "hold", "mutate"} /\ IsObjectValue(last.ret)) =>
            heap[last.ret.v].kind = "proxy"
    /\ (last.op = "writeRef" /\ ~last.threw) =>
            \E i \in Emits : log[i].pl.shape = "change"
\* C37: a call of createReactiveFields that throws on a colliding name has
\* installed the names listed before it, each as a reactive field, and none
\* of the names listed after it; a field installed by such a call works: its
\* getter returns the stored value, its setter emits the event of the field
\* and a write through it emits the two change events.
FirstColliding(definitions, ownNames) ==
    CHOOSE k \in 1..Len(definitions) :
        /\ definitions[k] \in ownNames
        /\ \A j \in 1..(k - 1) : definitions[j] \notin ownNames
InstalledByThrowingCall == "x" \in DOMAIN fields /\ "s" \notin DOMAIN fields
C37_Step ==
    /\ (last'.op = "createReactiveFields" /\ last'.threw) =>
            LET definitions == last'.path
                k == FirstColliding(definitions, own)
            IN /\ \A i \in 1..(k - 1) :
                    /\ definitions[i] \in own'
                    /\ definitions[i] \in DOMAIN fields'
                    /\ IsObjectValue(fields'[definitions[i]])
                    /\ heap'[fields'[definitions[i]].v].kind = "proxy"
               /\ \A i \in (k + 1)..Len(definitions) :
                    definitions[i] \notin own =>
                        definitions[i] \notin own' /\ definitions[i] \notin DOMAIN fields'
    /\ (InstalledByThrowingCall /\ last'.path = <<"x">>) =>
            /\ last'.op = "fieldRead" => last'.ret = fields["x"]
            /\ last'.op = "fieldWrite" =>
                    /\ fields'["x"] = last'.value
                    /\ \E i \in 1..Len(log') : log'[i].k = "emit" /\ log'[i].ev = "x:change"
            /\ last'.op = "write" =>
                    LET events == SelectSeq(log', LAMBDA s : s.k = "emit")
                    IN /\ Len(events) = 2
                       /\ events[1].ev = "x:c:change" /\ events[2].ev = "x:change"
C37_PartialApplication == [][C37_Step]_vars
C37_Witness ==
    /\ InstalledByThrowingCall
    /\ "a" \in DOMAIN fields
    /\ last.op = "write" /\ last.path = <<"x">>
    /\ \E i \in Emits : CallsOf(i) # {}
====
